---- MODULE Spec2Model ----
(***************************************************************************)
(* StreamFlix backend (src/backend/server.py): the four MongoDB            *)
(* collections, the bearer-token guard and the request handlers.  Every    *)
(* handler is an async coroutine; each `await db....` is one step of the   *)
(* request, so that concurrent requests interleave between their database  *)
(* calls exactly where the event loop can switch.                          *)
(***************************************************************************)
EXTENDS Integers, Sequences, FiniteSets, Bags, TLC

VARIABLES
    users,          \* db.users, in insertion (natural) order
    profiles,       \* db.profiles
    movies,         \* db.movies
    view_progress,  \* db.view_progress
    inflight,       \* the requests suspended at an await (a bag)
    last,           \* the response sent last
    held,           \* a token pair a client has kept from a response
    now,            \* datetime.now(timezone.utc), in minutes
    ticks,          \* clock advances so far
    nextProfile,    \* uuid4 draws so far for Profile ids
    nextMovie,      \* uuid4 draws so far for Movie ids
    nextVp          \* uuid4 draws so far for ViewProgress ids

vars == <<users, profiles, movies, view_progress, inflight, last, held, now,
          ticks, nextProfile, nextMovie, nextVp>>
db == <<users, profiles, movies, view_progress>>

(***************************************************************************)
(* Bounds of the model.                                                    *)
(***************************************************************************)
MaxReqs == 2
MaxUsers == 4
MaxTicks == 2
MaxProfiles == 2
MaxMovies == 2
MaxVp == 2

(***************************************************************************)
(* Program constants.                                                      *)
(***************************************************************************)
ACCESS_TOKEN_EXPIRE_MINUTES == 30
REFRESH_TOKEN_EXPIRE_DAYS == 7
MinutesPerDay == 1440
ContinueThreshold == 30
ContinueLimit == 10

AccessLife == ACCESS_TOKEN_EXPIRE_MINUTES
RefreshLife == REFRESH_TOKEN_EXPIRE_DAYS * MinutesPerDay

(***************************************************************************)
(* Values.  Ids are str(uuid.uuid4()): the n-th draw for a collection is a  *)
(* string no other draw gives.                                             *)
(***************************************************************************)
NoVal == "None"
Nil == [nil |-> TRUE]
\* An Optional field or parameter: None when it is not sent, the value when
\* it is.
None == <<>>
Some(v) == <<v>>
UserId(n) == <<"u1", "u2", "u3", "u4", "u5", "u6", "u7", "u8">>[n]
ProfileId(n) == <<"p1", "p2", "p3", "p4", "p5", "p6", "p7", "p8">>[n]
MovieId(n) ==
    <<"m1", "m2", "m3", "m4", "m5", "m6", "m7", "m8", "m9", "m10", "m11", "m12">>[n]
VpId(n) ==
    <<"v1", "v2", "v3", "v4", "v5", "v6", "v7", "v8", "v9", "v10", "v11", "v12">>[n]

\* The positions of a collection whose document satisfies P, in natural order.
Matching(coll, P(_)) == {i \in 1..Len(coll) : P(coll[i])}
Min(S) == CHOOSE x \in S : \A y \in S : x <= y
\* find_one: the first matching document, or None.
FindOne(coll, P(_)) ==
    IF Matching(coll, P) = {} THEN Nil ELSE coll[Min(Matching(coll, P))]
\* find(...).to_list: all matching documents in natural order.
FindAll(coll, P(_)) == SelectSeq(coll, P)
\* insert_one
InsertOne(coll, doc) == Append(coll, doc)
\* delete_one: removes the first matching document.
DeleteOne(coll, P(_)) ==
    IF Matching(coll, P) = {} THEN coll
    ELSE LET k == Min(Matching(coll, P)) IN
         [i \in 1..(Len(coll) - 1) |-> IF i < k THEN coll[i] ELSE coll[i + 1]]
\* update_one: applies upd to the first matching document.
UpdateOne(coll, P(_), upd(_)) ==
    IF Matching(coll, P) = {} THEN coll
    ELSE LET k == Min(Matching(coll, P)) IN [coll EXCEPT ![k] = upd(@)]
\* A push that skips a value the array already holds.
AddToSet(arr, v) == IF \E i \in 1..Len(arr) : arr[i] = v THEN arr ELSE Append(arr, v)
\* $push: appends v to an array field, whatever the array holds.
Push(arr, v) == Append(arr, v)
\* A removal of the first occurrence only.
PullFirst(arr, v) ==
    IF \A i \in 1..Len(arr) : arr[i] # v THEN arr
    ELSE LET k == CHOOSE i \in 1..Len(arr) : arr[i] = v /\ \A j \in 1..(i - 1) : arr[j] # v
         IN  [i \in 1..(Len(arr) - 1) |-> IF i < k THEN arr[i] ELSE arr[i + 1]]
\* $pull: removes every occurrence of v from an array field.
Pull(arr, v) == SelectSeq(arr, LAMBDA x : x # v)
\* $set: the fields of upd replace or extend those of the document.
SetFields(doc, upd) ==
    [f \in DOMAIN doc \cup DOMAIN upd |-> IF f \in DOMAIN upd THEN upd[f] ELSE doc[f]]
\* The first n elements of a sequence.
Take(seq, n) == SubSeq(seq, 1, IF n < Len(seq) THEN n ELSE Len(seq))
\* A membership test that never finds the value.
NeverInList(v, arr) == FALSE
\* Python's `v in arr`.
InList(v, arr) == \E i \in 1..Len(arr) : arr[i] = v
IsNil(d) == d = Nil

(***************************************************************************)
(* Credential store.                                                       *)
(***************************************************************************)
\* bcrypt.hashpw: a salted one-way digest; the salt plays no part in a check.
hash_password(password) == <<"bcrypt", password>>
verify_password(password, hashed) == hashed = <<"bcrypt", password>>

\* What arrives in the Authorization header.
NoCred == [form |-> "none", key |-> "", sub |-> NoVal, exp |-> 0]
Garbage == [form |-> "garbage", key |-> "", sub |-> NoVal, exp |-> 0]
Jwt(key, sub, exp) == [form |-> "jwt", key |-> key, sub |-> sub, exp |-> exp]

\* jwt.encode of {"sub": ..., "exp": ...} with JWT_SECRET: the payload carries
\* no token kind, only the subject and the expiry.
create_access_token(sub) == Jwt("JWT_SECRET", sub, now + AccessLife)
create_refresh_token(sub) == Jwt("JWT_SECRET", sub, now + RefreshLife)
TokenResponse(sub) ==
    [access_token |-> create_access_token(sub),
     refresh_token |-> create_refresh_token(sub),
     token_type |-> "bearer"]

\* A decode that does not verify the exp claim.
jwt_decode_no_exp(cred) ==
    CASE cred.form # "jwt" -> [err |-> "DecodeError", sub |-> NoVal]
      [] cred.key # "JWT_SECRET" -> [err |-> "InvalidSignatureError", sub |-> NoVal]
      [] OTHER -> [err |-> "none", sub |-> cred.sub]
\* jwt.decode: structure, then signature, then the exp claim.
jwt_decode(cred) ==
    CASE cred.form # "jwt" -> [err |-> "DecodeError", sub |-> NoVal]
      [] cred.key # "JWT_SECRET" -> [err |-> "InvalidSignatureError", sub |-> NoVal]
      [] cred.exp <= now -> [err |-> "ExpiredSignatureError", sub |-> NoVal]
      [] OTHER -> [err |-> "none", sub |-> cred.sub]

\* `import jwt` is PyJWT (jwt.encode / jwt.decode / jwt.ExpiredSignatureError at
\* module level); PyJWT defines PyJWTError and InvalidTokenError but no
\* attribute JWTError.
jwt_has_JWTError == FALSE

AuthFail(code, detail) == [ok |-> FALSE, code |-> code, detail |-> detail, user |-> Nil]
AuthOk(user) == [ok |-> TRUE, code |-> 200, detail |-> "", user |-> user]

\* The except clauses of get_current_user, tried in order for an exception
\* raised inside its try block.  `except jwt.JWTError` evaluates jwt.JWTError
\* for every exception the first clause did not take, HTTPException included:
\* when the attribute is missing that evaluation raises AttributeError, which
\* leaves the dependency unhandled (a 500 response).
ExceptClauses(exc, httpCode, httpDetail) ==
    CASE exc = "ExpiredSignatureError" -> AuthFail(401, "Token expired")
      [] ~jwt_has_JWTError -> AuthFail(500, "Internal Server Error")
      [] exc \in {"DecodeError", "InvalidSignatureError"} -> AuthFail(401, "Invalid token")
      [] OTHER -> AuthFail(httpCode, httpDetail)

\* A lookup whose filter lost the id.
CurrentUserLookupAny(sub) == FindOne(users, LAMBDA u : TRUE)
\* `user = await db.users.find_one({"id": user_id})`
CurrentUserLookup(sub) == FindOne(users, LAMBDA u : u.id = sub)

get_current_user(cred) ==
    LET payload == jwt_decode(cred)
        user == CurrentUserLookup(payload.sub)
    IN  CASE payload.err # "none" -> ExceptClauses(payload.err, 0, "")
          [] payload.sub = NoVal ->
                ExceptClauses("HTTPException", 401, "Invalid authentication credentials")
          [] IsNil(user) -> ExceptClauses("HTTPException", 401, "User not found")
          [] OTHER -> AuthOk(user)

\* security = HTTPBearer(): with no Authorization header the dependency
\* rejects the request itself, with 403 or 401 depending on the FastAPI
\* release.
HTTPBearerCodes == {401, 403}
security(cred) ==
    IF cred.form = "none"
    THEN {AuthFail(c, "Not authenticated") : c \in HTTPBearerCodes}
    ELSE {get_current_user(cred)}

\* A guard without the role test.
get_admin_user_any(cred) == security(cred)
get_admin_user(cred) ==
    {IF au.ok /\ au.user.role # "admin"
     THEN AuthFail(403, "Admin access required") ELSE au : au \in security(cred)}

(***************************************************************************)
(* Requests.  A request that reaches an await is suspended in `inflight`   *)
(* with its position (pc) and its local variables (loc); the event loop    *)
(* resumes any suspended request next.  A request that returns or raises   *)
(* leaves its response in `last`.                                          *)
(***************************************************************************)
Start(op, cred, who, a) ==
    [op |-> op, pc |-> "start", cred |-> cred, who |-> who, a |-> a, loc |-> Nil]
Goto(q, pc, loc) == [q EXCEPT !.pc = pc, !.loc = loc]
Response(q, code, detail, body) ==
    [seq |-> 1 - last.seq, op |-> q.op, cred |-> q.cred, who |-> q.who,
     a |-> q.a, code |-> code, detail |-> detail, body |-> body]
NoResponse ==
    [seq |-> 0, op |-> "none", cred |-> NoCred, who |-> NoVal, a |-> Nil,
     code |-> 0, detail |-> "", body |-> Nil]

Suspended == BagToSet(inflight)
CanSuspend == BagCardinality(inflight) < MaxReqs
\* A new request runs to its first await and is suspended there.
Suspend(q) == inflight' = inflight (+) SetToBag({q}) /\ last' = last
\* A suspended request runs on to its next await.
Resume(q, q2) ==
    inflight' = (inflight (-) SetToBag({q})) (+) SetToBag({q2}) /\ last' = last
\* A new request answers without having been suspended.
Answer(q, code, detail, body) ==
    inflight' = inflight /\ last' = Response(q, code, detail, body)
\* A suspended request answers.
Finish(q, code, detail, body) ==
    inflight' = inflight (-) SetToBag({q}) /\ last' = Response(q, code, detail, body)
Reject(op, cred, a, au) == Answer(Start(op, cred, NoVal, a), au.code, au.detail, Nil)

\* The outcome kinds of the error taxonomy.
Kind(code) ==
    CASE code = 200 -> "OK"
      [] code = 400 -> "Conflict"
      [] code = 401 -> "Unauthorized"
      [] code = 403 -> "Forbidden"
      [] code = 404 -> "NotFound"
      [] OTHER -> "ServerFault"
\* A response has been sent in this step.
Responded == last'.seq # last.seq

(***************************************************************************)
(* Seed data (src/backend/seed_data.py): the admin, the demo user with a   *)
(* profile, and a movie.                                                   *)
(***************************************************************************)
AdminUser ==
    [id |-> UserId(1), email |-> "admin@streamflix.com",
     password_hash |-> hash_password("admin123"), role |-> "admin",
     profiles |-> <<>>]
DemoUser ==
    [id |-> UserId(2), email |-> "demo@streamflix.com",
     password_hash |-> hash_password("demo123"), role |-> "user",
     profiles |-> <<ProfileId(1)>>]

(***************************************************************************)
(* Inputs.                                                                 *)
(***************************************************************************)
Emails == {"demo@streamflix.com", "test@example.com"}
Passwords == {"demo123", "test123"}
GhostUser == "u0"
\* Clock advances that put an instant on each side of both expiries.
TimeSteps == {AccessLife - 1, RefreshLife - AccessLife + 2}

\* The credentials no login returned: none, not a JWT, signed with another
\* secret, no subject, a subject that is not stored.
ForgedCreds ==
    {NoCred, Garbage,
     Jwt("other-secret", UserId(1), RefreshLife + RefreshLife),
     Jwt("JWT_SECRET", NoVal, RefreshLife + RefreshLife),
     Jwt("JWT_SECRET", GhostUser, RefreshLife + RefreshLife)}
\* The tokens the client has kept.
HeldTokens ==
    IF IsNil(held) THEN {} ELSE {held.access_token, held.refresh_token}
\* The access token a login of each stored user returns now, and no token.
FreshCreds == {create_access_token(users[i].id) : i \in 1..Len(users)} \cup {NoCred}
AdminCreds == {create_access_token(users[i].id) : i \in {j \in 1..Len(users) : users[j].role = "admin"}}

(***************************************************************************)
(* Authentication routes.                                                  *)
(***************************************************************************)
\* A User whose role is not the default.
NewUserAsAdmin(email, password) ==
    [id |-> UserId(Len(users) + 1), email |-> email,
     password_hash |-> hash_password(password), role |-> "admin",
     profiles |-> <<>>]
\* User(email=..., password_hash=...): the defaults fill id, role, profiles.
NewUser(email, password) ==
    [id |-> UserId(Len(users) + 1), email |-> email,
     password_hash |-> hash_password(password), role |-> "user",
     profiles |-> <<>>]

\* A lookup by the id of the new User instead of the email.
RegisterLookupById(email) == FindOne(users, LAMBDA u : u.id = UserId(Len(users) + 1))
\* `existing_user = await db.users.find_one({"email": user_data.email})`
RegisterLookup(email) == FindOne(users, LAMBDA u : u.email = email)

\* register, to the end of `await db.users.find_one(...)`.
register_find(email, password) ==
    /\ LET q == Start("register", NoCred, NoVal, [email |-> email, password |-> password])
       IN  IF ~IsNil(RegisterLookup(email))
           THEN Answer(q, 400, "Email already registered", Nil)
           ELSE CanSuspend /\ Suspend(Goto(q, "insert", Nil))
    /\ UNCHANGED <<db, held, now, ticks, nextProfile, nextMovie, nextVp>>

\* register, from `await db.users.insert_one(user.dict())` to the response.
register_insert(q) ==
    /\ q.op = "register" /\ q.pc = "insert"
    /\ Len(users) < MaxUsers
    /\ LET user == NewUser(q.a.email, q.a.password)
       IN  /\ users' = InsertOne(users, user)
           /\ inflight' = inflight (-) SetToBag({q})
           /\ last' = Response([q EXCEPT !.who = user.id], 200, "", TokenResponse(user.id))
    /\ UNCHANGED <<profiles, movies, view_progress, held, now, ticks,
                   nextProfile, nextMovie, nextVp>>

\* The check of login: `if not user or not verify_password(...)`.
LoginCheck(user, password) ==
    IF IsNil(user) \/ ~verify_password(password, user.password_hash)
    THEN [code |-> 401, detail |-> "Invalid email or password"]
    ELSE [code |-> 200, detail |-> ""]

login(email, password) ==
    /\ LET q == Start("login", NoCred, NoVal, [email |-> email, password |-> password])
           user == FindOne(users, LAMBDA u : u.email = email)
           chk == LoginCheck(user, password)
       IN  IF chk.code # 200
           THEN Answer(q, chk.code, chk.detail, Nil)
           ELSE Answer([q EXCEPT !.who = user.id], 200, "", TokenResponse(user.id))
    /\ UNCHANGED <<db, held, now, ticks, nextProfile, nextMovie, nextVp>>

get_me(cred) ==
    /\ \E au \in security(cred) :
         IF ~au.ok THEN Reject("get_me", cred, Nil, au)
         ELSE Answer(Start("get_me", cred, au.user.id, Nil), 200, "", au.user)
    /\ UNCHANGED <<db, held, now, ticks, nextProfile, nextMovie, nextVp>>

(***************************************************************************)
(* Movie routes.                                                           *)
(***************************************************************************)
\* Text is a sequence of characters; $options "i" folds case.
Lower(c) ==
    CASE c = "B" -> "b" [] c = "U" -> "u" [] c = "C" -> "c" [] c = "K" -> "k"
      [] c = "S" -> "s" [] OTHER -> c
LowerText(t) == [i \in 1..Len(t) |-> Lower(t[i])]
Contains(text, pat) ==
    \E i \in 0..(Len(text) - Len(pat)) : SubSeq(text, i + 1, i + Len(pat)) = pat
\* {"$regex": search, "$options": "i"} for a search text without regex
\* metacharacters.
RegexI(search, text) == Contains(LowerText(text), LowerText(search))

BigBuckBunny ==
    [id |-> MovieId(1), slug |-> "big-buck-bunny", title |-> <<"B", "u", "c", "k">>,
     description |-> <<"r", "a", "b">>, category |-> "animation",
     release_year |-> 2008, updated_at |-> 0]

\* MovieCreate bodies: a new slug, the seeded slug.
Sintel ==
    [slug |-> "sintel", title |-> <<"S", "i">>, description |-> <<"b", "U", "c", "k">>,
     category |-> "action", release_year |-> 2010]
MovieCreates == {Sintel, [Sintel EXCEPT !.slug = "big-buck-bunny"]}
\* MovieUpdate bodies, as the fields that are not None.
MovieUpdates == {[slug |-> "big-buck-bunny", release_year |-> 2010]}
\* Path parameters: the ids drawn so far, one never drawn, and the slugs.
MovieIds == {MovieId(n) : n \in 1..(nextMovie - 1)} \cup {"m0"}
MovieKeys == MovieIds \cup {"big-buck-bunny", "sintel"}
Categories == {NoVal, "animation"}
\* A query parameter is None when it is not sent; year=0 and search="" are
\* sent values.
Years == {None, Some(0), Some(2010)}
Searches == {None, Some(<<>>), Some(<<"b", "u", "c", "k">>)}
Limits == {50, 1}

\* Python's truth of an Optional parameter: None, 0 and "" are false.
TruthyInt(o) == o # None /\ o[1] # 0
TruthyStr(o) == o # None /\ o[1] # <<>>
\* The query get_movies builds: each filter only when its parameter is truthy.
MovieQuery(category, year, search, m) ==
    /\ category # NoVal => m.category = category
    /\ TruthyInt(year) => m.release_year = year[1]
    /\ TruthyStr(search) => RegexI(search[1], m.title) \/ RegexI(search[1], m.description)


get_movies(cred, category, year, search, limit) ==
    /\ LET q == Start("get_movies", cred, NoVal,
                      [category |-> category, year |-> year, search |-> search,
                       limit |-> limit])
           found == FindAll(movies, LAMBDA m : MovieQuery(category, year, search, m))
       IN  Answer(q, 200, "", Take(found, limit))
    /\ UNCHANGED <<db, held, now, ticks, nextProfile, nextMovie, nextVp>>

\* find_one({"$or": [{"id": key}, {"slug": key}]}): the first document, in
\* natural order, that matches either branch.
MovieByIdOrSlug(key) == FindOne(movies, LAMBDA m : m.id = key \/ m.slug = key)

get_movie(cred, key) ==
    /\ LET q == Start("get_movie", cred, NoVal, [movie_id |-> key])
           movie == MovieByIdOrSlug(key)
       IN  IF IsNil(movie) THEN Answer(q, 404, "Movie not found", Nil)
           ELSE Answer(q, 200, "", movie)
    /\ UNCHANGED <<db, held, now, ticks, nextProfile, nextMovie, nextVp>>

\* A create without the slug lookup.
SlugLookupNone(slug) == Nil
\* `existing_movie = await db.movies.find_one({"slug": movie_data.slug})`
SlugLookup(slug) == FindOne(movies, LAMBDA m : m.slug = slug)

\* create_movie, to the end of the slug lookup.
create_movie_find(cred, data) ==
    /\ \E au \in get_admin_user(cred) :
         IF ~au.ok THEN Reject("create_movie", cred, data, au)
         ELSE LET q == Start("create_movie", cred, au.user.id, data)
              IN  IF ~IsNil(SlugLookup(data.slug))
                  THEN Answer(q, 400, "Movie with this slug already exists", Nil)
                  ELSE CanSuspend /\ Suspend(Goto(q, "insert", Nil))
    /\ UNCHANGED <<db, held, now, ticks, nextProfile, nextMovie, nextVp>>

\* create_movie, from Movie(**movie_data.dict()) and insert_one to the response.
create_movie_insert(q) ==
    /\ q.op = "create_movie" /\ q.pc = "insert"
    /\ nextMovie <= MaxMovies
    /\ LET movie == q.a @@ [id |-> MovieId(nextMovie), updated_at |-> now]
       IN  /\ movies' = InsertOne(movies, movie)
           /\ Finish(q, 200, "", movie)
    /\ nextMovie' = nextMovie + 1
    /\ UNCHANGED <<users, profiles, view_progress, held, now, ticks, nextProfile, nextVp>>

\* update_movie, to the end of the lookup by id; update_data is built here.
update_movie_find(cred, movie_id, upd) ==
    /\ \E au \in get_admin_user(cred) :
         LET a == [movie_id |-> movie_id, data |-> upd] IN
         IF ~au.ok THEN Reject("update_movie", cred, a, au)
         ELSE LET q == Start("update_movie", cred, au.user.id, a)
                  movie == FindOne(movies, LAMBDA m : m.id = movie_id)
              IN  IF IsNil(movie) THEN Answer(q, 404, "Movie not found", Nil)
                  ELSE /\ CanSuspend
                       /\ Suspend(Goto(q, "update",
                                       [update_data |-> upd @@ [updated_at |-> now]]))
    /\ UNCHANGED <<db, held, now, ticks, nextProfile, nextMovie, nextVp>>

\* update_movie: `await db.movies.update_one({"id": movie_id}, {"$set": ...})`.
update_movie_update(q) ==
    /\ q.op = "update_movie" /\ q.pc = "update"
    /\ movies' = UpdateOne(movies, LAMBDA m : m.id = q.a.movie_id,
                           LAMBDA m : SetFields(m, q.loc.update_data))
    /\ Resume(q, Goto(q, "reread", Nil))
    /\ UNCHANGED <<users, profiles, view_progress, held, now, ticks,
                   nextProfile, nextMovie, nextVp>>

\* update_movie: the second find_one and Movie(**updated_movie), which raises
\* TypeError when the document is gone.
update_movie_reread(q) ==
    /\ q.op = "update_movie" /\ q.pc = "reread"
    /\ LET updated_movie == FindOne(movies, LAMBDA m : m.id = q.a.movie_id)
       IN  IF IsNil(updated_movie) THEN Finish(q, 500, "Internal Server Error", Nil)
           ELSE Finish(q, 200, "", updated_movie)
    /\ UNCHANGED <<db, held, now, ticks, nextProfile, nextMovie, nextVp>>

\* delete_movie, to the end of the lookup by id.
delete_movie_find(cred, movie_id) ==
    /\ \E au \in get_admin_user(cred) :
         LET a == [movie_id |-> movie_id] IN
         IF ~au.ok THEN Reject("delete_movie", cred, a, au)
         ELSE LET q == Start("delete_movie", cred, au.user.id, a)
                  movie == FindOne(movies, LAMBDA m : m.id = movie_id)
              IN  IF IsNil(movie) THEN Answer(q, 404, "Movie not found", Nil)
                  ELSE CanSuspend /\ Suspend(Goto(q, "delete", Nil))
    /\ UNCHANGED <<db, held, now, ticks, nextProfile, nextMovie, nextVp>>

\* A delete that also takes the id out of every watchlist.
delete_movie_cascade(q) ==
    /\ q.op = "delete_movie" /\ q.pc = "delete"
    /\ movies' = DeleteOne(movies, LAMBDA m : m.id = q.a.movie_id)
    /\ profiles' = [i \in 1..Len(profiles) |->
                      [profiles[i] EXCEPT !.watchlist = Pull(@, q.a.movie_id)]]
    /\ Finish(q, 200, "Movie deleted successfully", Nil)
    /\ UNCHANGED <<users, view_progress, held, now, ticks, nextProfile, nextMovie, nextVp>>
\* delete_movie: `await db.movies.delete_one({"id": movie_id})` and the response.
delete_movie_delete(q) ==
    /\ q.op = "delete_movie" /\ q.pc = "delete"
    /\ movies' = DeleteOne(movies, LAMBDA m : m.id = q.a.movie_id)
    /\ Finish(q, 200, "Movie deleted successfully", Nil)
    /\ UNCHANGED <<users, profiles, view_progress, held, now, ticks,
                   nextProfile, nextMovie, nextVp>>

(***************************************************************************)
(* Profile routes.                                                         *)
(***************************************************************************)
\* The demo profile of the seed.  The seed writes no "watchlist" field; every
\* reader takes the missing field as the empty list.
John ==
    [id |-> ProfileId(1), user_id |-> UserId(2), name |-> "John", avatar |-> "default",
     language |-> "en", maturity_rating |-> "PG-13", watch_history |-> <<>>,
     watchlist |-> <<>>, created_at |-> 0]

\* ProfileCreate bodies.
Kid == [name |-> "Kid", avatar |-> "default", language |-> "en", maturity_rating |-> "G"]
ProfileCreates == {Kid}
\* ProfileUpdate: five Optional fields, None by default.
ProfileUpdateFields == {"name", "avatar", "language", "maturity_rating", "watchlist"}
ProfileUpdate(sent) ==
    [f \in ProfileUpdateFields |-> IF f \in DOMAIN sent THEN Some(sent[f]) ELSE None]
\* ProfileUpdate bodies: nothing sent, two texts, an empty text and a list.
Rename == ProfileUpdate([name |-> "Johnny", language |-> "es"])
ProfileUpdates ==
    {ProfileUpdate(<<>>), Rename, ProfileUpdate([avatar |-> "", watchlist |-> <<"m0">>])}
\* A filter that drops the watchlist as well.
update_data_texts(profile_data) ==
    [k \in {f \in DOMAIN profile_data : profile_data[f] # None /\ f # "watchlist"} |->
        profile_data[k][1]]
\* `{k: v for k, v in profile_data.dict().items() if v is not None}`
update_data(profile_data) ==
    [k \in {f \in DOMAIN profile_data : profile_data[f] # None} |-> profile_data[k][1]]
ProfileIds == {ProfileId(n) : n \in 1..(nextProfile - 1)} \cup {"p0"}

\* A lookup whose filter lost the user_id.
OwnedOrNot(profile_id, user_id) == FindOne(profiles, LAMBDA p : p.id = profile_id)
\* `await db.profiles.find_one({"id": profile_id, "user_id": current_user.id})`
OwnedProfile(profile_id, user_id) ==
    FindOne(profiles, LAMBDA p : p.id = profile_id /\ p.user_id = user_id)

get_profiles(cred) ==
    /\ \E au \in security(cred) :
         IF ~au.ok THEN Reject("get_profiles", cred, Nil, au)
         ELSE Answer(Start("get_profiles", cred, au.user.id, Nil), 200, "",
                     FindAll(profiles, LAMBDA p : p.user_id = au.user.id))
    /\ UNCHANGED <<db, held, now, ticks, nextProfile, nextMovie, nextVp>>

\* create_profile, through Profile(...) and `await db.profiles.insert_one`.
create_profile_insert(cred, data) ==
    /\ \E au \in security(cred) :
         IF ~au.ok
         THEN /\ Reject("create_profile", cred, data, au)
              /\ UNCHANGED <<profiles, nextProfile>>
         ELSE /\ nextProfile <= MaxProfiles
              /\ CanSuspend
              /\ LET profile == data @@ [id |-> ProfileId(nextProfile), user_id |-> au.user.id,
                                         watch_history |-> <<>>, watchlist |-> <<>>,
                                         created_at |-> now]
                 IN  /\ profiles' = InsertOne(profiles, profile)
                     /\ Suspend(Goto(Start("create_profile", cred, au.user.id, data),
                                     "push", [profile |-> profile]))
              /\ nextProfile' = nextProfile + 1
    /\ UNCHANGED <<users, movies, view_progress, held, now, ticks, nextMovie, nextVp>>

\* create_profile: `$push` of the id to the user's profiles, and the response.
create_profile_push(q) ==
    /\ q.op = "create_profile" /\ q.pc = "push"
    /\ users' = UpdateOne(users, LAMBDA u : u.id = q.who,
                          LAMBDA u : [u EXCEPT !.profiles = Push(@, q.loc.profile.id)])
    /\ Finish(q, 200, "", q.loc.profile)
    /\ UNCHANGED <<profiles, movies, view_progress, held, now, ticks,
                   nextProfile, nextMovie, nextVp>>

\* update_profile, to the end of the ownership lookup; update_data is built
\* here.
update_profile_find(cred, profile_id, profile_data) ==
    /\ \E au \in security(cred) :
         LET a == [profile_id |-> profile_id, data |-> profile_data]
             upd == update_data(profile_data) IN
         IF ~au.ok THEN Reject("update_profile", cred, a, au)
         ELSE LET q == Start("update_profile", cred, au.user.id, a)
                  profile == OwnedProfile(profile_id, au.user.id)
              IN  IF IsNil(profile) THEN Answer(q, 404, "Profile not found", Nil)
                  ELSE /\ CanSuspend
                       /\ Suspend(Goto(q, IF DOMAIN upd # {} THEN "update" ELSE "reread",
                                       [update_data |-> upd]))
    /\ UNCHANGED <<db, held, now, ticks, nextProfile, nextMovie, nextVp>>

\* update_profile: `await db.profiles.update_one({"id": ...}, {"$set": ...})`.
update_profile_update(q) ==
    /\ q.op = "update_profile" /\ q.pc = "update"
    /\ profiles' = UpdateOne(profiles, LAMBDA p : p.id = q.a.profile_id,
                             LAMBDA p : SetFields(p, q.loc.update_data))
    /\ Resume(q, Goto(q, "reread", Nil))
    /\ UNCHANGED <<users, movies, view_progress, held, now, ticks,
                   nextProfile, nextMovie, nextVp>>

\* update_profile: the second find_one and Profile(**updated_profile), which
\* raises TypeError when the document is gone.
update_profile_reread(q) ==
    /\ q.op = "update_profile" /\ q.pc = "reread"
    /\ LET updated_profile == FindOne(profiles, LAMBDA p : p.id = q.a.profile_id)
       IN  IF IsNil(updated_profile) THEN Finish(q, 500, "Internal Server Error", Nil)
           ELSE Finish(q, 200, "", updated_profile)
    /\ UNCHANGED <<db, held, now, ticks, nextProfile, nextMovie, nextVp>>

\* delete_profile, to the end of the ownership lookup.
delete_profile_find(cred, profile_id) ==
    /\ \E au \in security(cred) :
         LET a == [profile_id |-> profile_id] IN
         IF ~au.ok THEN Reject("delete_profile", cred, a, au)
         ELSE LET q == Start("delete_profile", cred, au.user.id, a)
              IN  IF IsNil(OwnedProfile(profile_id, au.user.id))
                  THEN Answer(q, 404, "Profile not found", Nil)
                  ELSE CanSuspend /\ Suspend(Goto(q, "delete", Nil))
    /\ UNCHANGED <<db, held, now, ticks, nextProfile, nextMovie, nextVp>>

\* delete_profile: `await db.profiles.delete_one({"id": profile_id})`.
delete_profile_delete(q) ==
    /\ q.op = "delete_profile" /\ q.pc = "delete"
    /\ profiles' = DeleteOne(profiles, LAMBDA p : p.id = q.a.profile_id)
    /\ Resume(q, Goto(q, "pull", Nil))
    /\ UNCHANGED <<users, movies, view_progress, held, now, ticks,
                   nextProfile, nextMovie, nextVp>>

\* A delete that leaves the user's profiles list as it is.
delete_profile_pull_skip(q) ==
    /\ q.op = "delete_profile" /\ q.pc = "pull"
    /\ Finish(q, 200, "Profile deleted successfully", Nil)
    /\ UNCHANGED <<db, held, now, ticks, nextProfile, nextMovie, nextVp>>
\* delete_profile: `$pull` of the id from the user's profiles, and the response.
delete_profile_pull(q) ==
    /\ q.op = "delete_profile" /\ q.pc = "pull"
    /\ users' = UpdateOne(users, LAMBDA u : u.id = q.who,
                          LAMBDA u : [u EXCEPT !.profiles = Pull(@, q.a.profile_id)])
    /\ Finish(q, 200, "Profile deleted successfully", Nil)
    /\ UNCHANGED <<profiles, movies, view_progress, held, now, ticks,
                   nextProfile, nextMovie, nextVp>>

(***************************************************************************)
(* View progress routes.                                                   *)
(***************************************************************************)
\* ViewProgressUpdate bodies.
ProgressBodies ==
    {[progress_seconds |-> 15, completed |-> FALSE],
     [progress_seconds |-> 450, completed |-> FALSE],
     [progress_seconds |-> 450, completed |-> TRUE]}

\* The orders of the documents at the positions S that are descending in
\* last_watched: a document with the greatest key first, then such an order
\* of the others.
RECURSIVE DescendingOrders(_, _)
DescendingOrders(docs, S) ==
    IF S = {} THEN {<<>>}
    ELSE UNION {{<<docs[i]>> \o rest : rest \in DescendingOrders(docs, S \ {i})} :
                  i \in {j \in S : \A k \in S : docs[j].last_watched >= docs[k].last_watched}}
\* The documents as they are stored.
NaturalOrder(docs) == {docs}
\* .sort("last_watched", -1): any order of the documents that is descending in
\* last_watched (the order of equal keys is not fixed).
SortedDesc(docs) == DescendingOrders(docs, 1..Len(docs))

\* A filter with $gte in place of $gt.
ContinueQueryAtLeast(profile_id, vp) ==
    /\ vp.profile_id = profile_id
    /\ vp.completed = FALSE
    /\ vp.progress_seconds >= ContinueThreshold
\* The filter of get_continue_watching.
ContinueQuery(profile_id, vp) ==
    /\ vp.profile_id = profile_id
    /\ vp.completed = FALSE
    /\ vp.progress_seconds > ContinueThreshold

\* get_continue_watching, to the end of the ownership lookup.
get_continue_watching_find(cred, profile_id) ==
    /\ \E au \in security(cred) :
         LET a == [profile_id |-> profile_id] IN
         IF ~au.ok THEN Reject("get_continue_watching", cred, a, au)
         ELSE LET q == Start("get_continue_watching", cred, au.user.id, a)
              IN  IF IsNil(OwnedProfile(profile_id, au.user.id))
                  THEN Answer(q, 404, "Profile not found", Nil)
                  ELSE CanSuspend /\ Suspend(Goto(q, "list", Nil))
    /\ UNCHANGED <<db, held, now, ticks, nextProfile, nextMovie, nextVp>>

\* get_continue_watching: the find().sort().to_list(length=10).
get_continue_watching_list(q) ==
    /\ q.op = "get_continue_watching" /\ q.pc = "list"
    /\ \E sorted \in SortedDesc(FindAll(view_progress,
                                        LAMBDA vp : ContinueQuery(q.a.profile_id, vp))) :
         LET progress_list == Take(sorted, ContinueLimit)
         IN  IF progress_list = <<>> THEN Finish(q, 200, "", <<>>)
             ELSE Resume(q, Goto(q, "join", [progress_list |-> progress_list,
                                             result |-> <<>>]))
    /\ UNCHANGED <<db, held, now, ticks, nextProfile, nextMovie, nextVp>>

\* get_continue_watching: one turn of the loop, the movie lookup of the next
\* progress record; after the last turn, the response.
get_continue_watching_join(q) ==
    /\ q.op = "get_continue_watching" /\ q.pc = "join"
    /\ LET progress == Head(q.loc.progress_list)
           movie == FindOne(movies, LAMBDA m : m.id = progress.movie_id)
           result == IF IsNil(movie) THEN q.loc.result
                     ELSE Append(q.loc.result, [movie |-> movie, progress |-> progress])
           rest == Tail(q.loc.progress_list)
       IN  IF rest = <<>> THEN Finish(q, 200, "", result)
           ELSE Resume(q, Goto(q, "join", [progress_list |-> rest, result |-> result]))
    /\ UNCHANGED <<db, held, now, ticks, nextProfile, nextMovie, nextVp>>

\* A lookup whose filter lost the movie_id.
ProgressLookupByProfile(profile_id, movie_id) ==
    FindOne(view_progress, LAMBDA vp : vp.profile_id = profile_id)
\* `db.view_progress.find_one({"profile_id": profile_id, "movie_id": movie_id})`
ProgressLookup(profile_id, movie_id) ==
    FindOne(view_progress, LAMBDA vp : vp.profile_id = profile_id /\ vp.movie_id = movie_id)

\* update_view_progress, to the end of the ownership lookup; the profile
\* document read here is the one the handler keeps.
update_view_progress_find(cred, movie_id, profile_id, data) ==
    /\ \E au \in security(cred) :
         LET a == [movie_id |-> movie_id, profile_id |-> profile_id, data |-> data] IN
         IF ~au.ok THEN Reject("update_view_progress", cred, a, au)
         ELSE LET q == Start("update_view_progress", cred, au.user.id, a)
                  profile == OwnedProfile(profile_id, au.user.id)
              IN  IF IsNil(profile) THEN Answer(q, 404, "Profile not found", Nil)
                  ELSE CanSuspend /\ Suspend(Goto(q, "movie", [profile |-> profile]))
    /\ UNCHANGED <<db, held, now, ticks, nextProfile, nextMovie, nextVp>>

\* A movie lookup that has the watch history grow before it raises.
update_view_progress_movie_eager(q) ==
    /\ q.op = "update_view_progress" /\ q.pc = "movie"
    /\ IF IsNil(FindOne(movies, LAMBDA m : m.id = q.a.movie_id))
       THEN /\ Finish(q, 404, "Movie not found", Nil)
            /\ profiles' = UpdateOne(profiles, LAMBDA p : p.id = q.a.profile_id,
                                     LAMBDA p : [p EXCEPT !.watch_history = Push(@, q.a.movie_id)])
       ELSE Resume(q, Goto(q, "progress", q.loc)) /\ profiles' = profiles
    /\ UNCHANGED <<users, movies, view_progress, held, now, ticks,
                   nextProfile, nextMovie, nextVp>>
\* update_view_progress: `movie = await db.movies.find_one({"id": movie_id})`.
update_view_progress_movie(q) ==
    /\ q.op = "update_view_progress" /\ q.pc = "movie"
    /\ IF IsNil(FindOne(movies, LAMBDA m : m.id = q.a.movie_id))
       THEN Finish(q, 404, "Movie not found", Nil)
       ELSE Resume(q, Goto(q, "progress", q.loc))
    /\ UNCHANGED <<db, held, now, ticks, nextProfile, nextMovie, nextVp>>

\* update_view_progress: `progress = await db.view_progress.find_one({...})`.
update_view_progress_progress(q) ==
    /\ q.op = "update_view_progress" /\ q.pc = "progress"
    /\ LET progress == ProgressLookup(q.a.profile_id, q.a.movie_id)
       IN  Resume(q, Goto(q, "write", [profile |-> q.loc.profile, progress |-> progress]))
    /\ UNCHANGED <<db, held, now, ticks, nextProfile, nextMovie, nextVp>>

\* update_view_progress: the update_one of the record found, or the insert_one
\* of a new one; then the response, unless the watch history has to grow.
update_view_progress_write(q) ==
    /\ q.op = "update_view_progress" /\ q.pc = "write"
    /\ IF ~IsNil(q.loc.progress)
       THEN /\ view_progress' =
                 UpdateOne(view_progress, LAMBDA vp : vp.id = q.loc.progress.id,
                           LAMBDA vp : [vp EXCEPT
                                          !.progress_seconds = q.a.data.progress_seconds,
                                          !.completed = q.a.data.completed,
                                          !.last_watched = now])
            /\ nextVp' = nextVp
       ELSE /\ nextVp <= MaxVp
            /\ view_progress' =
                 InsertOne(view_progress,
                           [id |-> VpId(nextVp), profile_id |-> q.a.profile_id,
                            movie_id |-> q.a.movie_id,
                            progress_seconds |-> q.a.data.progress_seconds,
                            completed |-> q.a.data.completed, last_watched |-> now])
            /\ nextVp' = nextVp + 1
    /\ IF ~InList(q.a.movie_id, q.loc.profile.watch_history)
       THEN Resume(q, Goto(q, "history", Nil))
       ELSE Finish(q, 200, "Progress updated successfully", Nil)
    /\ UNCHANGED <<users, profiles, movies, held, now, ticks, nextProfile, nextMovie>>

\* update_view_progress: `$push` to watch_history, and the response.
update_view_progress_history(q) ==
    /\ q.op = "update_view_progress" /\ q.pc = "history"
    /\ profiles' = UpdateOne(profiles, LAMBDA p : p.id = q.a.profile_id,
                             LAMBDA p : [p EXCEPT !.watch_history = Push(@, q.a.movie_id)])
    /\ Finish(q, 200, "Progress updated successfully", Nil)
    /\ UNCHANGED <<users, movies, view_progress, held, now, ticks,
                   nextProfile, nextMovie, nextVp>>

(***************************************************************************)
(* Watchlist routes.                                                       *)
(***************************************************************************)
\* get_watchlist, to the end of the ownership lookup; an empty watchlist is
\* answered at once.
get_watchlist_find(cred, profile_id) ==
    /\ \E au \in security(cred) :
         LET a == [profile_id |-> profile_id] IN
         IF ~au.ok THEN Reject("get_watchlist", cred, a, au)
         ELSE LET q == Start("get_watchlist", cred, au.user.id, a)
                  profile == OwnedProfile(profile_id, au.user.id)
              IN  IF IsNil(profile) THEN Answer(q, 404, "Profile not found", Nil)
                  ELSE IF profile.watchlist = <<>> THEN Answer(q, 200, "", <<>>)
                  ELSE /\ CanSuspend
                       /\ Suspend(Goto(q, "movies", [watchlist_ids |-> profile.watchlist]))
    /\ UNCHANGED <<db, held, now, ticks, nextProfile, nextMovie, nextVp>>

\* get_watchlist: `db.movies.find({"id": {"$in": watchlist_ids}})`.
get_watchlist_movies(q) ==
    /\ q.op = "get_watchlist" /\ q.pc = "movies"
    /\ Finish(q, 200, "", FindAll(movies, LAMBDA m : InList(m.id, q.loc.watchlist_ids)))
    /\ UNCHANGED <<db, held, now, ticks, nextProfile, nextMovie, nextVp>>

\* add_to_watchlist, to the end of the ownership lookup; the profile document
\* read here is the one the handler keeps.
add_to_watchlist_find(cred, profile_id, movie_id) ==
    /\ \E au \in security(cred) :
         LET a == [profile_id |-> profile_id, movie_id |-> movie_id] IN
         IF ~au.ok THEN Reject("add_to_watchlist", cred, a, au)
         ELSE LET q == Start("add_to_watchlist", cred, au.user.id, a)
                  profile == OwnedProfile(profile_id, au.user.id)
              IN  IF IsNil(profile) THEN Answer(q, 404, "Profile not found", Nil)
                  ELSE CanSuspend /\ Suspend(Goto(q, "movie", [profile |-> profile]))
    /\ UNCHANGED <<db, held, now, ticks, nextProfile, nextMovie, nextVp>>

\* An add that pushes without the membership test.
add_to_watchlist_movie_blind(q) ==
    /\ q.op = "add_to_watchlist" /\ q.pc = "movie"
    /\ IF IsNil(FindOne(movies, LAMBDA m : m.id = q.a.movie_id))
       THEN Finish(q, 404, "Movie not found", Nil)
       ELSE Resume(q, Goto(q, "push", Nil))
    /\ UNCHANGED <<db, held, now, ticks, nextProfile, nextMovie, nextVp>>
\* add_to_watchlist: the movie lookup, and the membership test on the list
\* read before it.
add_to_watchlist_movie(q) ==
    /\ q.op = "add_to_watchlist" /\ q.pc = "movie"
    /\ IF IsNil(FindOne(movies, LAMBDA m : m.id = q.a.movie_id))
       THEN Finish(q, 404, "Movie not found", Nil)
       ELSE IF ~InList(q.a.movie_id, q.loc.profile.watchlist)
       THEN Resume(q, Goto(q, "push", Nil))
       ELSE Finish(q, 200, "Already in watchlist", Nil)
    /\ UNCHANGED <<db, held, now, ticks, nextProfile, nextMovie, nextVp>>

\* add_to_watchlist: `$push` to watchlist, and the response.
add_to_watchlist_push(q) ==
    /\ q.op = "add_to_watchlist" /\ q.pc = "push"
    /\ profiles' = UpdateOne(profiles, LAMBDA p : p.id = q.a.profile_id,
                             LAMBDA p : [p EXCEPT !.watchlist = Push(@, q.a.movie_id)])
    /\ Finish(q, 200, "Added to watchlist", Nil)
    /\ UNCHANGED <<users, movies, view_progress, held, now, ticks,
                   nextProfile, nextMovie, nextVp>>

\* remove_from_watchlist, to the end of the ownership lookup.
remove_from_watchlist_find(cred, profile_id, movie_id) ==
    /\ \E au \in security(cred) :
         LET a == [profile_id |-> profile_id, movie_id |-> movie_id] IN
         IF ~au.ok THEN Reject("remove_from_watchlist", cred, a, au)
         ELSE LET q == Start("remove_from_watchlist", cred, au.user.id, a)
              IN  IF IsNil(OwnedProfile(profile_id, au.user.id))
                  THEN Answer(q, 404, "Profile not found", Nil)
                  ELSE CanSuspend /\ Suspend(Goto(q, "pull", Nil))
    /\ UNCHANGED <<db, held, now, ticks, nextProfile, nextMovie, nextVp>>

\* remove_from_watchlist: `$pull` from watchlist, and the response.
remove_from_watchlist_pull(q) ==
    /\ q.op = "remove_from_watchlist" /\ q.pc = "pull"
    /\ profiles' = UpdateOne(profiles, LAMBDA p : p.id = q.a.profile_id,
                             LAMBDA p : [p EXCEPT !.watchlist = Pull(@, q.a.movie_id)])
    /\ Finish(q, 200, "Removed from watchlist", Nil)
    /\ UNCHANGED <<users, movies, view_progress, held, now, ticks,
                   nextProfile, nextMovie, nextVp>>

check_watchlist_status(cred, profile_id, movie_id) ==
    /\ \E au \in security(cred) :
         LET a == [profile_id |-> profile_id, movie_id |-> movie_id] IN
         IF ~au.ok THEN Reject("check_watchlist_status", cred, a, au)
         ELSE LET q == Start("check_watchlist_status", cred, au.user.id, a)
                  profile == OwnedProfile(profile_id, au.user.id)
              IN  IF IsNil(profile) THEN Answer(q, 404, "Profile not found", Nil)
                  ELSE Answer(q, 200, "", [in_watchlist |-> InList(movie_id, profile.watchlist)])
    /\ UNCHANGED <<db, held, now, ticks, nextProfile, nextMovie, nextVp>>

(***************************************************************************)
(* Translations and health: routes that read no collection.                *)
(***************************************************************************)
Translations_en ==
    [home |-> "Home",
     movies |-> "Movies",
     series |-> "TV Series",
     my_list |-> "My List",
     search |-> "Search",
     play |-> "Play",
     more_info |-> "More Info",
     continue_watching |-> "Continue Watching",
     popular |-> "Popular",
     trending |-> "Trending Now",
     new_releases |-> "New Releases",
     action |-> "Action",
     comedy |-> "Comedy",
     drama |-> "Drama",
     horror |-> "Horror",
     sci_fi |-> "Sci-Fi",
     romance |-> "Romance",
     thriller |-> "Thriller",
     documentary |-> "Documentary",
     animation |-> "Animation",
     family |-> "Family"]
Translations_es ==
    [home |-> "Inicio",
     movies |-> "Películas",
     series |-> "Series de TV",
     my_list |-> "Mi Lista",
     search |-> "Buscar",
     play |-> "Reproducir",
     more_info |-> "Más Información",
     continue_watching |-> "Continuar Viendo",
     popular |-> "Popular",
     trending |-> "Tendencias",
     new_releases |-> "Nuevos Lanzamientos",
     action |-> "Acción",
     comedy |-> "Comedia",
     drama |-> "Drama",
     horror |-> "Terror",
     sci_fi |-> "Ciencia Ficción",
     romance |-> "Romance",
     thriller |-> "Suspenso",
     documentary |-> "Documental",
     animation |-> "Animación",
     family |-> "Familia"]
Translations_fr ==
    [home |-> "Accueil",
     movies |-> "Films",
     series |-> "Séries TV",
     my_list |-> "Ma Liste",
     search |-> "Rechercher",
     play |-> "Lire",
     more_info |-> "Plus d'Infos",
     continue_watching |-> "Continuer à Regarder",
     popular |-> "Populaire",
     trending |-> "Tendances",
     new_releases |-> "Nouvelles Sorties",
     action |-> "Action",
     comedy |-> "Comédie",
     drama |-> "Drame",
     horror |-> "Horreur",
     sci_fi |-> "Science-Fiction",
     romance |-> "Romance",
     thriller |-> "Thriller",
     documentary |-> "Documentaire",
     animation |-> "Animation",
     family |-> "Famille"]
Langs == {"en", "es", "fr", "de"}
\* A lookup with no default.
translations_get_strict(lang) ==
    CASE lang = "en" -> Translations_en
      [] lang = "es" -> Translations_es
      [] lang = "fr" -> Translations_fr
      [] OTHER -> Nil
\* `translations.get(lang, translations["en"])`
translations_get(lang) ==
    CASE lang = "en" -> Translations_en
      [] lang = "es" -> Translations_es
      [] lang = "fr" -> Translations_fr
      [] OTHER -> Translations_en

get_translations(lang) ==
    /\ Answer(Start("get_translations", NoCred, NoVal, [lang |-> lang]), 200, "",
              translations_get(lang))
    /\ UNCHANGED <<db, held, now, ticks, nextProfile, nextMovie, nextVp>>

health_check ==
    /\ Answer(Start("health_check", NoCred, NoVal, Nil), 200, "",
              [status |-> "healthy", timestamp |-> now])
    /\ UNCHANGED <<db, held, now, ticks, nextProfile, nextMovie, nextVp>>

(***************************************************************************)
(* The environment: a client keeps the token pair of the response it has    *)
(* just got; the clock advances.                                           *)
(***************************************************************************)
Keep ==
    /\ last.op \in {"register", "login"} /\ last.code = 200
    /\ last.body.access_token.exp = now + AccessLife
    /\ held' = [access_token |-> last.body.access_token,
                refresh_token |-> last.body.refresh_token,
                from |-> last.op, sub |-> last.who, email |-> last.a.email, at |-> now]
    /\ held' # held
    /\ UNCHANGED <<db, inflight, last, now, ticks, nextProfile, nextMovie, nextVp>>

Tick(d) ==
    /\ ticks < MaxTicks
    /\ now' = now + d
    /\ ticks' = ticks + 1
    /\ UNCHANGED <<db, inflight, last, held, nextProfile, nextMovie, nextVp>>

(***************************************************************************)
(* Specifications.                                                         *)
(***************************************************************************)
Init ==
    /\ users = <<AdminUser, DemoUser>>
    /\ profiles = <<John>>
    /\ movies = <<BigBuckBunny>>
    /\ view_progress = <<>>
    /\ inflight = EmptyBag
    /\ last = NoResponse
    /\ held = Nil
    /\ now = 0
    /\ ticks = 0
    /\ nextProfile = 2
    /\ nextMovie = 2
    /\ nextVp = 1

\* The authentication routes, requests interleaving freely, under a clock.
NextAuth ==
    \/ \E e \in Emails, p \in Passwords : register_find(e, p)
    \/ \E q \in Suspended : register_insert(q)
    \/ \E e \in Emails, p \in Passwords : login(e, p)
    \/ \E c \in ForgedCreds \cup HeldTokens : get_me(c)
    \/ Keep
    \/ \E d \in TimeSteps : Tick(d)

SpecAuth == Init /\ [][NextAuth]_vars

\* The movie routes, requests interleaving freely: the admin with every
\* body, the others with one.
NextMovies ==
    \/ get_movies(NoCred, NoVal, None, None, 50)
    \/ \E k \in {MovieId(1), "sintel"} : get_movie(NoCred, k)
    \/ \E c \in AdminCreds, d \in MovieCreates : create_movie_find(c, d)
    \/ \E c \in FreshCreds \ AdminCreds : create_movie_find(c, Sintel)
    \/ \E q \in Suspended : create_movie_insert(q)
    \/ \E c \in AdminCreds, k \in MovieIds, u \in MovieUpdates : update_movie_find(c, k, u)
    \/ \E c \in FreshCreds \ AdminCreds : update_movie_find(c, MovieId(1), [slug |-> "sintel"])
    \/ \E q \in Suspended : update_movie_update(q)
    \/ \E q \in Suspended : update_movie_reread(q)
    \/ \E c \in AdminCreds, k \in MovieIds : delete_movie_find(c, k)
    \/ \E c \in FreshCreds \ AdminCreds : delete_movie_find(c, MovieId(1))
    \/ \E q \in Suspended : delete_movie_delete(q)

SpecMovies == Init /\ [][NextMovies]_vars

UserCreds == FreshCreds \ {NoCred}
\* No request is suspended.
Quiet == inflight = EmptyBag
\* The credential is of the user the profile belongs to.
Owns(cred, profile_id) == ~IsNil(OwnedProfile(profile_id, cred.sub))
Progress450 == [progress_seconds |-> 450, completed |-> FALSE]

\* The profile-scoped routes.  A user's request on a profile of its own runs
\* from start to response; requests on another user's profile, or on an id
\* that was never drawn, arrive at any moment, also while that request is
\* suspended.
NextScoped ==
    \/ \E c \in UserCreds, k \in ProfileIds :
          (Quiet \/ ~Owns(c, k)) /\ update_profile_find(c, k, Rename)
    \/ \E q \in Suspended : update_profile_update(q)
    \/ \E q \in Suspended : update_profile_reread(q)
    \/ \E c \in UserCreds, k \in ProfileIds :
          (Quiet \/ ~Owns(c, k)) /\ delete_profile_find(c, k)
    \/ \E q \in Suspended : delete_profile_delete(q)
    \/ \E q \in Suspended : delete_profile_pull(q)
    \/ \E c \in UserCreds, k \in ProfileIds :
          (Quiet \/ ~Owns(c, k)) /\ get_continue_watching_find(c, k)
    \/ \E q \in Suspended : get_continue_watching_list(q)
    \/ \E q \in Suspended : get_continue_watching_join(q)
    \/ \E c \in UserCreds, k \in ProfileIds :
          (Quiet \/ ~Owns(c, k)) /\ update_view_progress_find(c, MovieId(1), k, Progress450)
    \/ \E q \in Suspended : update_view_progress_movie(q)
    \/ \E q \in Suspended : update_view_progress_progress(q)
    \/ \E q \in Suspended : update_view_progress_write(q)
    \/ \E q \in Suspended : update_view_progress_history(q)
    \/ \E c \in UserCreds, k \in ProfileIds :
          (Quiet \/ ~Owns(c, k)) /\ get_watchlist_find(c, k)
    \/ \E q \in Suspended : get_watchlist_movies(q)
    \/ \E c \in UserCreds, k \in ProfileIds :
          (Quiet \/ ~Owns(c, k)) /\ add_to_watchlist_find(c, k, MovieId(1))
    \/ \E q \in Suspended : add_to_watchlist_movie(q)
    \/ \E q \in Suspended : add_to_watchlist_push(q)
    \/ \E c \in UserCreds, k \in ProfileIds :
          (Quiet \/ ~Owns(c, k)) /\ remove_from_watchlist_find(c, k, MovieId(1))
    \/ \E q \in Suspended : remove_from_watchlist_pull(q)
    \/ \E c \in UserCreds, k \in ProfileIds :
          (Quiet \/ ~Owns(c, k)) /\ check_watchlist_status(c, k, MovieId(1))

SpecScoped == Init /\ [][NextScoped]_vars

\* The token a login of the seeded profile's owner returns now.
OwnerCreds == {create_access_token(John.user_id)}

\* Every route of the API, one request at a time.
Next ==
    \/ Quiet /\ \E e \in Emails : register_find(e, "test123")
    \/ \E q \in Suspended : register_insert(q)
    \/ Quiet /\ \E p \in Passwords : login("demo@streamflix.com", p)
    \/ Quiet /\ \E c \in UserCreds : get_me(c)
    \/ Quiet /\ \E c \in OwnerCreds : get_profiles(c)
    \/ Quiet /\ \E c \in UserCreds : create_profile_insert(c, Kid)
    \/ \E q \in Suspended : create_profile_push(q)
    \/ Quiet /\ \E c \in OwnerCreds : update_profile_find(c, ProfileId(1), Rename)
    \/ \E q \in Suspended : update_profile_update(q)
    \/ \E q \in Suspended : update_profile_reread(q)
    \/ Quiet /\ \E c \in OwnerCreds : delete_profile_find(c, ProfileId(1))
    \/ \E q \in Suspended : delete_profile_delete(q)
    \/ \E q \in Suspended : delete_profile_pull(q)
    \/ Quiet /\ get_movies(NoCred, NoVal, None, None, 50)
    \/ Quiet /\ get_movie(NoCred, "sintel")
    \/ Quiet /\ \E c \in AdminCreds : create_movie_find(c, Sintel)
    \/ \E q \in Suspended : create_movie_insert(q)
    \/ Quiet /\ \E c \in AdminCreds : update_movie_find(c, MovieId(1), [slug |-> "sintel"])
    \/ \E q \in Suspended : update_movie_update(q)
    \/ \E q \in Suspended : update_movie_reread(q)
    \/ Quiet /\ \E c \in AdminCreds : delete_movie_find(c, MovieId(1))
    \/ \E q \in Suspended : delete_movie_delete(q)
    \/ Quiet /\ \E c \in OwnerCreds : get_continue_watching_find(c, ProfileId(1))
    \/ \E q \in Suspended : get_continue_watching_list(q)
    \/ \E q \in Suspended : get_continue_watching_join(q)
    \/ Quiet /\ \E c \in OwnerCreds :
          update_view_progress_find(c, MovieId(1), ProfileId(1), Progress450)
    \/ \E q \in Suspended : update_view_progress_movie(q)
    \/ \E q \in Suspended : update_view_progress_progress(q)
    \/ \E q \in Suspended : update_view_progress_write(q)
    \/ \E q \in Suspended : update_view_progress_history(q)
    \/ Quiet /\ \E c \in OwnerCreds : get_watchlist_find(c, ProfileId(1))
    \/ \E q \in Suspended : get_watchlist_movies(q)
    \/ Quiet /\ \E c \in OwnerCreds : add_to_watchlist_find(c, ProfileId(1), MovieId(1))
    \/ \E q \in Suspended : add_to_watchlist_movie(q)
    \/ \E q \in Suspended : add_to_watchlist_push(q)
    \/ Quiet /\ \E c \in OwnerCreds :
          remove_from_watchlist_find(c, ProfileId(1), MovieId(1))
    \/ \E q \in Suspended : remove_from_watchlist_pull(q)
    \/ Quiet /\ \E c \in OwnerCreds : check_watchlist_status(c, ProfileId(1), MovieId(1))
    \/ Quiet /\ \E lang \in Langs : get_translations(lang)
    \/ Quiet /\ health_check

Spec == Init /\ [][Next]_vars

\* MovieUpdate bodies that set the slug: to the text of the second id drawn,
\* and to a slug of the seed.
SlugUpdates == {[slug |-> MovieId(2)], [slug |-> "sintel"]}

\* The movie routes, one request at a time, with get_movie by every id drawn
\* and by the slugs.
NextKeys ==
    \/ Quiet /\ \E c \in AdminCreds : create_movie_find(c, Sintel)
    \/ \E q \in Suspended : create_movie_insert(q)
    \/ Quiet /\ \E c \in AdminCreds, k \in MovieIds, u \in SlugUpdates :
          update_movie_find(c, k, u)
    \/ \E q \in Suspended : update_movie_update(q)
    \/ \E q \in Suspended : update_movie_reread(q)
    \/ Quiet /\ \E c \in AdminCreds, k \in MovieIds : delete_movie_find(c, k)
    \/ \E q \in Suspended : delete_movie_delete(q)
    \/ Quiet /\ \E k \in MovieKeys : get_movie(NoCred, k)

SpecKeys == Init /\ [][NextKeys]_vars

\* Record progress and watchlist add on the seeded profile and movie, requests
\* interleaving freely.
NextRaces ==
    \/ \E c \in OwnerCreds :
          update_view_progress_find(c, MovieId(1), ProfileId(1), Progress450)
    \/ \E q \in Suspended : update_view_progress_movie(q)
    \/ \E q \in Suspended : update_view_progress_progress(q)
    \/ \E q \in Suspended : update_view_progress_write(q)
    \/ \E q \in Suspended : update_view_progress_history(q)
    \/ \E c \in OwnerCreds : add_to_watchlist_find(c, ProfileId(1), MovieId(1))
    \/ \E q \in Suspended : add_to_watchlist_movie(q)
    \/ \E q \in Suspended : add_to_watchlist_push(q)

SpecRaces == Init /\ [][NextRaces]_vars

\* ViewProgressUpdate bodies on both sides of the continue-watching filter.
ProgressSteps ==
    {[progress_seconds |-> 30, completed |-> FALSE],
     [progress_seconds |-> 450, completed |-> FALSE],
     [progress_seconds |-> 450, completed |-> TRUE]}

\* Record progress and continue watching on the seeded profile, over the
\* movies an admin has created, one request at a time.
NextProgress ==
    \/ Quiet /\ \E c \in AdminCreds : create_movie_find(c, Sintel)
    \/ \E q \in Suspended : create_movie_insert(q)
    \/ Quiet /\ \E c \in OwnerCreds, m \in MovieIds, d \in ProgressSteps :
          update_view_progress_find(c, m, ProfileId(1), d)
    \/ \E q \in Suspended : update_view_progress_movie(q)
    \/ \E q \in Suspended : update_view_progress_progress(q)
    \/ \E q \in Suspended : update_view_progress_write(q)
    \/ \E q \in Suspended : update_view_progress_history(q)
    \/ Quiet /\ \E c \in OwnerCreds : get_continue_watching_find(c, ProfileId(1))
    \/ \E q \in Suspended : get_continue_watching_list(q)
    \/ \E q \in Suspended : get_continue_watching_join(q)

SpecProgress == Init /\ [][NextProgress]_vars

\* A ProfileUpdate body that sets the watchlist, with an id twice.
Relist == ProfileUpdate([watchlist |-> <<MovieId(1), MovieId(2), MovieId(1)>>])

\* The watchlist routes on the seeded profile, over the movies an admin has
\* created, one request at a time.
NextWatchlist ==
    \/ Quiet /\ \E c \in AdminCreds : create_movie_find(c, Sintel)
    \/ \E q \in Suspended : create_movie_insert(q)
    \/ Quiet /\ \E c \in OwnerCreds : update_profile_find(c, ProfileId(1), Relist)
    \/ \E q \in Suspended : update_profile_update(q)
    \/ \E q \in Suspended : update_profile_reread(q)
    \/ Quiet /\ \E c \in OwnerCreds : get_watchlist_find(c, ProfileId(1))
    \/ \E q \in Suspended : get_watchlist_movies(q)
    \/ Quiet /\ \E c \in OwnerCreds, m \in MovieIds :
          add_to_watchlist_find(c, ProfileId(1), m)
    \/ \E q \in Suspended : add_to_watchlist_movie(q)
    \/ \E q \in Suspended : add_to_watchlist_push(q)
    \/ Quiet /\ \E c \in OwnerCreds, m \in MovieIds :
          remove_from_watchlist_find(c, ProfileId(1), m)
    \/ \E q \in Suspended : remove_from_watchlist_pull(q)
    \/ Quiet /\ \E c \in OwnerCreds, m \in MovieIds :
          check_watchlist_status(c, ProfileId(1), m)

SpecWatchlist == Init /\ [][NextWatchlist]_vars

\* A profile that refers to the seeded movie, and an admin who deletes it, one
\* request at a time.
NextOrphans ==
    \/ Quiet /\ \E c \in OwnerCreds, d \in ProgressSteps :
          update_view_progress_find(c, MovieId(1), ProfileId(1), d)
    \/ \E q \in Suspended : update_view_progress_movie(q)
    \/ \E q \in Suspended : update_view_progress_progress(q)
    \/ \E q \in Suspended : update_view_progress_write(q)
    \/ \E q \in Suspended : update_view_progress_history(q)
    \/ Quiet /\ \E c \in OwnerCreds : add_to_watchlist_find(c, ProfileId(1), MovieId(1))
    \/ \E q \in Suspended : add_to_watchlist_movie(q)
    \/ \E q \in Suspended : add_to_watchlist_push(q)
    \/ Quiet /\ \E c \in AdminCreds : delete_movie_find(c, MovieId(1))
    \/ \E q \in Suspended : delete_movie_delete(q)
    \/ Quiet /\ \E c \in OwnerCreds : get_watchlist_find(c, ProfileId(1))
    \/ \E q \in Suspended : get_watchlist_movies(q)
    \/ Quiet /\ \E c \in OwnerCreds : check_watchlist_status(c, ProfileId(1), MovieId(1))
    \/ Quiet /\ \E c \in OwnerCreds : remove_from_watchlist_find(c, ProfileId(1), MovieId(1))
    \/ \E q \in Suspended : remove_from_watchlist_pull(q)
    \/ Quiet /\ \E c \in OwnerCreds : get_continue_watching_find(c, ProfileId(1))
    \/ \E q \in Suspended : get_continue_watching_list(q)
    \/ \E q \in Suspended : get_continue_watching_join(q)

SpecOrphans == Init /\ [][NextOrphans]_vars

\* Movie list with every combination of the filters, over the movies an admin
\* creates and deletes, one request at a time.
NextList ==
    \/ Quiet /\ \E c \in AdminCreds : create_movie_find(c, Sintel)
    \/ \E q \in Suspended : create_movie_insert(q)
    \/ Quiet /\ \E c \in AdminCreds : delete_movie_find(c, MovieId(1))
    \/ \E q \in Suspended : delete_movie_delete(q)
    \/ Quiet /\ \E cat \in Categories, y \in Years, s \in Searches, n \in Limits :
          get_movies(NoCred, cat, y, s, n)

SpecList == Init /\ [][NextList]_vars

\* The profile routes of both seeded users with every ProfileUpdate body, and
\* record progress on the seeded profile, one request at a time.
NextProfiles ==
    \/ Quiet /\ \E c \in UserCreds : get_profiles(c)
    \/ Quiet /\ \E c \in UserCreds : create_profile_insert(c, Kid)
    \/ \E q \in Suspended : create_profile_push(q)
    \/ Quiet /\ \E c \in UserCreds, k \in ProfileIds, u \in ProfileUpdates :
          update_profile_find(c, k, u)
    \/ \E q \in Suspended : update_profile_update(q)
    \/ \E q \in Suspended : update_profile_reread(q)
    \/ Quiet /\ \E c \in UserCreds, k \in ProfileIds : delete_profile_find(c, k)
    \/ \E q \in Suspended : delete_profile_delete(q)
    \/ \E q \in Suspended : delete_profile_pull(q)
    \/ Quiet /\ \E c \in OwnerCreds :
          update_view_progress_find(c, MovieId(1), ProfileId(1), Progress450)
    \/ \E q \in Suspended : update_view_progress_movie(q)
    \/ \E q \in Suspended : update_view_progress_progress(q)
    \/ \E q \in Suspended : update_view_progress_write(q)
    \/ \E q \in Suspended : update_view_progress_history(q)

SpecProfiles == Init /\ [][NextProfiles]_vars

\* No record progress request is suspended.
NoProgressInFlight == \A q \in Suspended : q.op # "update_view_progress"
Completed450 == [progress_seconds |-> 450, completed |-> TRUE]

\* Record progress on the seeded profile, one call at a time, while the
\* other requests that touch the profile or the movies (profile update and
\* delete, movie create and delete) interleave freely with it.
NextHistory ==
    \/ NoProgressInFlight /\ \E c \in OwnerCreds, m \in MovieIds, d \in {Progress450, Completed450} :
          update_view_progress_find(c, m, ProfileId(1), d)
    \/ \E q \in Suspended : update_view_progress_movie(q)
    \/ \E q \in Suspended : update_view_progress_progress(q)
    \/ \E q \in Suspended : update_view_progress_write(q)
    \/ \E q \in Suspended : update_view_progress_history(q)
    \/ Quiet /\ \E c \in AdminCreds : create_movie_find(c, Sintel)
    \/ \E q \in Suspended : create_movie_insert(q)
    \/ \E c \in AdminCreds : delete_movie_find(c, MovieId(1))
    \/ \E q \in Suspended : delete_movie_delete(q)
    \/ \E c \in OwnerCreds : update_profile_find(c, ProfileId(1), Rename)
    \/ \E q \in Suspended : update_profile_update(q)
    \/ \E q \in Suspended : update_profile_reread(q)
    \/ \E c \in OwnerCreds : delete_profile_find(c, ProfileId(1))
    \/ \E q \in Suspended : delete_profile_delete(q)
    \/ \E q \in Suspended : delete_profile_pull(q)

SpecHistory == Init /\ [][NextHistory]_vars

\* Calls that fail in each way (a stored email, a wrong password, no token, a
\* user on a movie write, a stored slug, an id never drawn) next to calls that
\* write, one at a time but for delete movie, which interleaves freely with
\* the others.
OnlyDeletes == \A q \in Suspended : q.op = "delete_movie"
NextErrors ==
    \/ Quiet /\ register_find("demo@streamflix.com", "test123")
    \/ Quiet /\ login("demo@streamflix.com", "test123")
    \/ Quiet /\ create_profile_insert(NoCred, Kid)
    \/ Quiet /\ \E c \in OwnerCreds \cup AdminCreds : create_movie_find(c, Sintel)
    \/ \E q \in Suspended : create_movie_insert(q)
    \/ \E c \in AdminCreds : delete_movie_find(c, MovieId(1))
    \/ \E q \in Suspended : delete_movie_delete(q)
    \/ OnlyDeletes /\ \E c \in OwnerCreds, m \in {MovieId(1), "m0"} :
          update_view_progress_find(c, m, ProfileId(1), Progress450)
    \/ OnlyDeletes /\ \E c \in OwnerCreds :
          update_view_progress_find(c, MovieId(1), "p0", Progress450)
    \/ \E q \in Suspended : update_view_progress_movie(q)
    \/ \E q \in Suspended : update_view_progress_progress(q)
    \/ \E q \in Suspended : update_view_progress_write(q)
    \/ \E q \in Suspended : update_view_progress_history(q)
    \/ OnlyDeletes /\ \E c \in OwnerCreds, m \in {MovieId(1), "m0"} :
          add_to_watchlist_find(c, ProfileId(1), m)
    \/ \E q \in Suspended : add_to_watchlist_movie(q)
    \/ \E q \in Suspended : add_to_watchlist_push(q)

SpecErrors == Init /\ [][NextErrors]_vars

\* One movie more than continue watching lists.
Shelf == ContinueLimit + 1
FilmSlugs ==
    <<"big-buck-bunny", "sintel", "f3", "f4", "f5", "f6", "f7", "f8", "f9", "f10",
      "f11", "f12">>
Film(n) == [BigBuckBunny EXCEPT !.id = MovieId(n), !.slug = FilmSlugs[n]]
\* The record of the seeded profile that watched film n at instant n.
Watched(n) ==
    [id |-> VpId(n), profile_id |-> ProfileId(1), movie_id |-> MovieId(n),
     progress_seconds |-> 450, completed |-> FALSE, last_watched |-> n]

\* The state after an admin has created the films of the shelf and the seeded
\* profile has recorded progress on each, one per instant.
InitContinue ==
    /\ users = <<AdminUser, DemoUser>>
    /\ profiles = <<[John EXCEPT !.watch_history = [n \in 1..Shelf |-> MovieId(n)]]>>
    /\ movies = [n \in 1..Shelf |-> Film(n)]
    /\ view_progress = [n \in 1..Shelf |-> Watched(n)]
    /\ inflight = EmptyBag
    /\ last = NoResponse
    /\ held = Nil
    /\ now = Shelf + 1
    /\ ticks = 0
    /\ nextProfile = 2
    /\ nextMovie = Shelf + 1
    /\ nextVp = Shelf + 1

\* Continue watching of the seeded profile, record progress on the film
\* watched first, and an admin who deletes the film watched last or the one
\* watched second, one request at a time.
NextContinue ==
    \/ Quiet /\ \E c \in AdminCreds, n \in {2, Shelf} : delete_movie_find(c, MovieId(n))
    \/ \E q \in Suspended : delete_movie_delete(q)
    \/ Quiet /\ \E c \in OwnerCreds, d \in ProgressSteps :
          update_view_progress_find(c, MovieId(1), ProfileId(1), d)
    \/ \E q \in Suspended : update_view_progress_movie(q)
    \/ \E q \in Suspended : update_view_progress_progress(q)
    \/ \E q \in Suspended : update_view_progress_write(q)
    \/ Quiet /\ \E c \in OwnerCreds : get_continue_watching_find(c, ProfileId(1))
    \/ \E q \in Suspended : get_continue_watching_list(q)
    \/ \E q \in Suspended : get_continue_watching_join(q)

SpecContinue == InitContinue /\ [][NextContinue]_vars

(***************************************************************************)
(* Properties.                                                             *)
(***************************************************************************)
Stored(email) == \E i \in 1..Len(users) : users[i].email = email
\* The requests that this step started and suspended at their first await.
Begun ==
    IF BagCardinality(inflight') > BagCardinality(inflight)
    THEN {q \in BagToSet(inflight') : CopiesIn(q, inflight') > CopiesIn(q, inflight)}
    ELSE {}
\* The suspended requests that this step ran.
Ran == {q \in BagToSet(inflight) : CopiesIn(q, inflight') < CopiesIn(q, inflight)}
\* This step answered a request that was not suspended before.
AnsweredAtOnce == Responded /\ inflight' = inflight

\* C1: in every reachable state no two User documents have the same email.
C1_EmailUnique ==
    \A i, j \in 1..Len(users) : i # j => users[i].email # users[j].email

\* C2: a register call that finds its email stored answers Conflict, inserts
\* nothing and returns no tokens; one that does not find it goes on to insert
\* exactly one User with that email and answers with an access and a refresh
\* token for that User.
C2_RegisterOutcomes ==
    [][/\ (AnsweredAtOnce /\ last'.op = "register") =>
             /\ Stored(last'.a.email)
             /\ Kind(last'.code) = "Conflict"
             /\ last'.body = Nil
             /\ users' = users
       /\ \A q \in Begun : q.op = "register" => ~Stored(q.a.email) /\ users' = users
       /\ (Responded /\ ~AnsweredAtOnce /\ last'.op = "register") =>
             /\ Kind(last'.code) = "OK"
             /\ Len(users') = Len(users) + 1
             /\ SubSeq(users', 1, Len(users)) = users
             /\ users'[Len(users')].email = last'.a.email
             /\ last'.body.access_token = Jwt("JWT_SECRET", users'[Len(users')].id, now + AccessLife)
             /\ last'.body.refresh_token = Jwt("JWT_SECRET", users'[Len(users')].id, now + RefreshLife)
      ]_vars
C2_Witness ==
    /\ last.op = "register" /\ last.code = 400 /\ last.a.email = "test@example.com"
    /\ Len(users) = 3

\* C3: the access token a successful register or login returns resolves, when
\* presented, to the User whose email is the one registered or logged in with.
C3_TokenResolvesToEmail ==
    /\ (last.op \in {"register", "login"} /\ last.code = 200
          /\ now < last.body.access_token.exp) =>
          LET au == get_current_user(last.body.access_token)
          IN  au.ok /\ au.user.email = last.a.email /\ au.user.id = last.who
    /\ (last.op = "get_me" /\ ~IsNil(held) /\ last.cred = held.access_token) =>
          \/ last.code = 200 /\ last.body.email = held.email
          \/ last.code = 401 /\ last.detail = "Token expired"
C3_Witness ==
    /\ ~IsNil(held) /\ held.from = "register"
    /\ last.op = "get_me" /\ last.cred = held.access_token /\ last.code = 200
    /\ last.body.email = "test@example.com"

\* The stored Users with this email and this password.
Holders(email, password) ==
    {users[i].id : i \in {j \in 1..Len(users) :
        users[j].email = email /\ verify_password(password, users[j].password_hash)}}

\* C4: a failed login has one outcome whatever the reason, and a login with
\* the email and the password of a stored User returns tokens whose subject
\* is the id of a User with that email and that password.
C4_Login ==
    [][(Responded /\ last'.op = "login") =>
          /\ last'.code # 200 =>
                last'.code = 401 /\ last'.detail = "Invalid email or password"
          /\ Holders(last'.a.email, last'.a.password) # {} =>
                /\ last'.code = 200
                /\ last'.body.access_token.sub \in Holders(last'.a.email, last'.a.password)
                /\ last'.body.refresh_token.sub = last'.body.access_token.sub
      ]_vars

Admins == {users[i].id : i \in {j \in 1..Len(users) : users[j].role = "admin"}}

\* C7: no step of any operation changes the role of a stored User or removes
\* a User; every User a step adds is added by register and has role user; so
\* the set of admins stays the one of the seed.
C7_RolesConstant ==
    [][/\ Len(users') >= Len(users)
       /\ \A i \in 1..Len(users) :
             users'[i].id = users[i].id /\ users'[i].role = users[i].role
       /\ \A i \in (Len(users) + 1)..Len(users') :
             users'[i].role = "user" /\ last'.op = "register" /\ Responded
       /\ Admins' = {AdminUser.id}
      ]_vars
C7_Witness ==
    /\ Len(users) = 3 /\ users[3].role = "user" /\ users[3].profiles # <<>>
    /\ users[2].profiles = <<>>
    /\ last.op = "update_movie" /\ last.code = 200

\* C8: resolving the principal never succeeds when no token is presented, when
\* the token is malformed or signed with another secret, when it has no
\* subject and when its subject is not stored; and whenever it fails, for
\* these reasons or for expiry, the answer is Unauthorized and nothing of the
\* operation is returned.
C8_BadTokenUnauthorized ==
    last.op = "get_me" =>
        /\ last.cred \in ForgedCreds => last.code # 200
        /\ last.code # 200 => Kind(last.code) = "Unauthorized" /\ last.body = Nil

\* C9: a token returned by register or login authenticates as its User at
\* every instant before its expiry (30 minutes after issue for the access
\* token, 7 days for the refresh token), whatever happened since, and is
\* rejected as expired at every instant after it.
C9_ValidUntilExpiry ==
    ~IsNil(held) =>
        /\ held.access_token.exp = held.at + 30
        /\ held.refresh_token.exp = held.at + 7 * 24 * 60
        /\ \A tok \in HeldTokens :
             /\ now < tok.exp =>
                   LET au == get_current_user(tok) IN au.ok /\ au.user.id = held.sub
             /\ now > tok.exp => get_current_user(tok) = AuthFail(401, "Token expired")
             /\ (last.op = "get_me" /\ last.cred = tok /\ last.code = 200) => last.who = held.sub
C9_Witness ==
    /\ ~IsNil(held)
    /\ now > held.access_token.exp /\ now < held.refresh_token.exp
    /\ last.op = "get_me" /\ last.cred = held.refresh_token /\ last.code = 200

ScopedOps ==
    {"update_profile", "delete_profile", "get_continue_watching",
     "update_view_progress", "get_watchlist", "add_to_watchlist",
     "remove_from_watchlist", "check_watchlist_status"}
IsOwner(user_id, profile_id) ==
    \E i \in 1..Len(profiles) :
        profiles[i].id = profile_id /\ profiles[i].user_id = user_id
ProfileStored(profile_id) == \E i \in 1..Len(profiles) : profiles[i].id = profile_id

\* C5: a profile-scoped operation called by an authenticated principal who
\* does not own the profile answers NotFound, with the very response given
\* for a profile id that is not stored, goes no further and changes nothing.
C5_NotOwnerNotFound ==
    [][/\ (AnsweredAtOnce /\ last'.op \in ScopedOps /\ last'.who # NoVal
             /\ ~IsOwner(last'.who, last'.a.profile_id)) =>
             /\ Kind(last'.code) = "NotFound"
             /\ last'.detail = "Profile not found"
             /\ last'.body = Nil
             /\ db' = db
       /\ \A q \in Begun : q.op \in ScopedOps => IsOwner(q.who, q.a.profile_id)
      ]_vars
C5_Witness ==
    /\ last.op = "delete_profile" /\ last.code = 404
    /\ last.who = UserId(1) /\ last.a.profile_id = ProfileId(1)
    /\ ProfileStored(ProfileId(1)) /\ ~IsOwner(UserId(1), ProfileId(1))
    /\ \E i \in 1..Len(profiles) : profiles[i].watchlist # <<>>

MovieWrites == {"create_movie", "update_movie", "delete_movie"}
RoleOf(user_id) ==
    IF \E i \in 1..Len(users) : users[i].id = user_id
    THEN (CHOOSE u \in {users[i] : i \in 1..Len(users)} : u.id = user_id).role
    ELSE NoVal
\* The role of the user a well-formed, unexpired token names.
CredRole(cred) ==
    IF cred.form = "jwt" /\ cred.key = "JWT_SECRET" /\ cred.exp > now
    THEN RoleOf(cred.sub) ELSE NoVal
MovieMatches(key) == \E i \in 1..Len(movies) : movies[i].id = key \/ movies[i].slug = key

\* C6: the movies change only in a step of a create, update or delete movie
\* request of an admin; such a request of a principal with role user answers
\* Forbidden and goes no further; list movies and get movie succeed with no
\* token.
C6_MoviesAdminOnly ==
    [][/\ movies' # movies =>
             \E q \in Ran : q.op \in MovieWrites /\ RoleOf(q.who) = "admin"
       /\ (Responded /\ last'.op \in MovieWrites /\ CredRole(last'.cred) = "user") =>
             /\ Kind(last'.code) = "Forbidden"
             /\ AnsweredAtOnce
             /\ movies' = movies
       /\ \A q \in Begun : q.op \in MovieWrites => CredRole(q.cred) = "admin"
       /\ (Responded /\ last'.op = "get_movies" /\ last'.cred = NoCred) =>
             Kind(last'.code) = "OK"
       /\ (Responded /\ last'.op = "get_movie" /\ last'.cred = NoCred) =>
             Kind(last'.code) = IF MovieMatches(last'.a.movie_id) THEN "OK" ELSE "NotFound"
      ]_vars
C6_Witness ==
    /\ last.op = "delete_movie" /\ last.code = 403 /\ CredRole(last.cred) = "user"
    /\ Len(movies) = 2

SlugStored(slug) == \E i \in 1..Len(movies) : movies[i].slug = slug

\* C10: a create movie call of an admin that finds its slug stored answers
\* Conflict and inserts nothing; one that does not find it goes on to insert
\* exactly one Movie, which has that slug and an id no stored Movie has.
C10_CreateMovieOutcomes ==
    [][/\ (AnsweredAtOnce /\ last'.op = "create_movie" /\ last'.who # NoVal) =>
             /\ SlugStored(last'.a.slug)
             /\ Kind(last'.code) = "Conflict"
             /\ movies' = movies
       /\ \A q \in Begun : q.op = "create_movie" =>
             ~SlugStored(q.a.slug) /\ movies' = movies
       /\ (Responded /\ ~AnsweredAtOnce /\ last'.op = "create_movie") =>
             /\ Kind(last'.code) = "OK"
             /\ movies' = Append(movies, last'.body)
             /\ last'.body.slug = last'.a.slug
             /\ \A i \in 1..Len(movies) : movies[i].id # last'.body.id
      ]_vars
C10_Witness ==
    /\ last.op = "create_movie" /\ last.code = 400 /\ last.a.slug = "sintel"
    /\ \E i \in 1..Len(movies) : movies[i].slug = "sintel" /\ movies[i].id # MovieId(1)

\* C11: in every reachable state no two Movie documents have the same slug.
C11_SlugUnique ==
    \A i, j \in 1..Len(movies) : i # j => movies[i].slug # movies[j].slug

WithId(key) == {i \in 1..Len(movies) : movies[i].id = key}
WithSlug(key) == {i \in 1..Len(movies) : movies[i].slug = key}

\* C12: get movie answers with the Movie whose id is the key when there is
\* one, whatever Movie has the key as its slug; with a Movie whose slug is the
\* key when no Movie has that id; and with NotFound when neither matches.
C12_IdBeforeSlug ==
    [][(Responded /\ last'.op = "get_movie") =>
          LET key == last'.a.movie_id
          IN  IF WithId(key) # {}
              THEN Kind(last'.code) = "OK" /\ last'.body.id = key
              ELSE IF WithSlug(key) # {}
              THEN Kind(last'.code) = "OK" /\ last'.body.slug = key
              ELSE Kind(last'.code) = "NotFound"
      ]_vars

\* C13: in every reachable state view_progress holds at most one record for
\* each pair of a profile and a movie.
C13_OneRecordPerPair ==
    \A i, j \in 1..Len(view_progress) :
        i # j => \/ view_progress[i].profile_id # view_progress[j].profile_id
                 \/ view_progress[i].movie_id # view_progress[j].movie_id

Count(arr, v) == Cardinality({i \in 1..Len(arr) : arr[i] = v})
ProfileOf(coll, profile_id) == CHOOSE p \in {coll[i] : i \in 1..Len(coll)} : p.id = profile_id

\* C18: a watchlist add that read the list without the movie, and a record
\* progress that read the history without it, append the id when they are
\* resumed whatever the list holds by then, so that two of them that read
\* before either wrote leave the id twice.
C18_StaleReadAppends ==
    [][\A q \in Ran :
          /\ (q.op = "add_to_watchlist" /\ q.pc = "push") =>
                Count(ProfileOf(profiles', q.a.profile_id).watchlist, q.a.movie_id)
                  = Count(ProfileOf(profiles, q.a.profile_id).watchlist, q.a.movie_id) + 1
          /\ (q.op = "update_view_progress" /\ q.pc = "history") =>
                Count(ProfileOf(profiles', q.a.profile_id).watch_history, q.a.movie_id)
                  = Count(ProfileOf(profiles, q.a.profile_id).watch_history, q.a.movie_id) + 1
      ]_vars
C18_Witness ==
    /\ Count(ProfileOf(profiles, ProfileId(1)).watchlist, MovieId(1)) = 2
    /\ Count(ProfileOf(profiles, ProfileId(1)).watch_history, MovieId(1)) = 2

PairRecords(coll, profile_id, movie_id) ==
    {i \in 1..Len(coll) : coll[i].profile_id = profile_id /\ coll[i].movie_id = movie_id}

\* C14: with requests one at a time, view_progress changes only in the write
\* step of record progress; that step, when a record for the pair is stored,
\* sets its progress_seconds and completed to the ones sent, keeps its id and
\* the number of records, and otherwise appends exactly one record for the
\* pair with them; it changes no record of another pair; and when the call
\* answers success the one record of the pair holds the values sent.
C14_RecordProgress ==
    [][/\ view_progress' # view_progress =>
             \E q \in Ran : q.op = "update_view_progress" /\ q.pc = "write"
       /\ \A q \in Ran : (q.op = "update_view_progress" /\ q.pc = "write") =>
             LET old == PairRecords(view_progress, q.a.profile_id, q.a.movie_id)
                 n == Len(view_progress)
             IN  IF old # {}
                 THEN /\ Len(view_progress') = n
                      /\ \A i \in 1..n :
                           IF i \in old
                           THEN /\ view_progress'[i].id = view_progress[i].id
                                /\ view_progress'[i].profile_id = q.a.profile_id
                                /\ view_progress'[i].movie_id = q.a.movie_id
                                /\ view_progress'[i].progress_seconds = q.a.data.progress_seconds
                                /\ view_progress'[i].completed = q.a.data.completed
                           ELSE view_progress'[i] = view_progress[i]
                 ELSE /\ Len(view_progress') = n + 1
                      /\ SubSeq(view_progress', 1, n) = view_progress
                      /\ view_progress'[n + 1].profile_id = q.a.profile_id
                      /\ view_progress'[n + 1].movie_id = q.a.movie_id
                      /\ view_progress'[n + 1].progress_seconds = q.a.data.progress_seconds
                      /\ view_progress'[n + 1].completed = q.a.data.completed
                      /\ \A i \in 1..n : view_progress[i].id # view_progress'[n + 1].id
       /\ (Responded /\ last'.op = "update_view_progress" /\ last'.code = 200) =>
             LET new == PairRecords(view_progress', last'.a.profile_id, last'.a.movie_id)
             IN  /\ Cardinality(new) = 1
                 /\ \A i \in new :
                      /\ view_progress'[i].progress_seconds = last'.a.data.progress_seconds
                      /\ view_progress'[i].completed = last'.a.data.completed
      ]_vars
C14_Witness ==
    /\ last.op = "update_view_progress" /\ last.code = 200
    /\ last.a.movie_id = MovieId(1) /\ last.a.data = [progress_seconds |-> 450, completed |-> TRUE]
    /\ Len(view_progress) = 2
    /\ view_progress[1].movie_id = MovieId(1) /\ view_progress[1].completed
    /\ view_progress[2].movie_id = MovieId(2) /\ view_progress[2].progress_seconds = 30

\* The records continue watching has to show for a profile.
Unfinished(profile_id) ==
    {view_progress[i] : i \in {j \in 1..Len(view_progress) :
        /\ view_progress[j].profile_id = profile_id
        /\ ~view_progress[j].completed
        /\ view_progress[j].progress_seconds > 30}}

\* C15: with requests one at a time, continue watching for an owned profile
\* returns, once each, exactly the records of that profile that are not
\* completed and have more than 30 seconds of progress, as they are stored
\* when it is called: a record at 30 seconds or less or completed is left
\* out, and is back once a later record progress puts it above 30 seconds
\* and not completed.
C15_ContinueFilter ==
    [][(Responded /\ last'.op = "get_continue_watching" /\ last'.code = 200) =>
          LET body == last'.body
          IN  /\ \A k \in 1..Len(body) :
                   /\ body[k].progress.profile_id = last'.a.profile_id
                   /\ body[k].progress.completed = FALSE
                   /\ body[k].progress.progress_seconds > 30
                   /\ body[k].movie.id = body[k].progress.movie_id
              /\ {body[k].progress : k \in 1..Len(body)} = Unfinished(last'.a.profile_id)
              /\ Len(body) = Cardinality(Unfinished(last'.a.profile_id))
      ]_vars
C15_Witness ==
    /\ last.op = "get_continue_watching" /\ last.code = 200
    /\ Len(last.body) = 1 /\ last.body[1].progress.movie_id = MovieId(2)
    /\ Len(view_progress) = 2
    /\ view_progress[1].movie_id = MovieId(1)
    /\ view_progress[1].progress_seconds = 30 /\ ~view_progress[1].completed

MovieStored(movie_id) == \E i \in 1..Len(movies) : movies[i].id = movie_id
ProfileReads ==
    {"get_watchlist", "check_watchlist_status", "remove_from_watchlist",
     "get_continue_watching"}

\* C16: the delete of a Movie leaves every profile, with its watchlist and
\* watch history, and every ViewProgress record as they are; the watchlist
\* list, check and remove and continue watching of the owner then still answer
\* success, the list and continue watching showing stored movies only and the
\* check still telling whether the id is in the watchlist.
C16_DeleteLeavesReferences ==
    [][/\ \A q \in Ran : q.op = "delete_movie" =>
             profiles' = profiles /\ view_progress' = view_progress /\ users' = users
       /\ (Responded /\ last'.op \in ProfileReads /\ IsOwner(last'.who, last'.a.profile_id)) =>
             Kind(last'.code) = "OK"
       /\ (Responded /\ last'.op = "get_watchlist" /\ last'.code = 200) =>
             LET ids == ProfileOf(profiles, last'.a.profile_id).watchlist
             IN  {last'.body[k].id : k \in 1..Len(last'.body)}
                   = {m \in {ids[i] : i \in 1..Len(ids)} : MovieStored(m)}
       /\ (Responded /\ last'.op = "get_continue_watching" /\ last'.code = 200) =>
             {last'.body[k].progress : k \in 1..Len(last'.body)}
               = {r \in Unfinished(last'.a.profile_id) : MovieStored(r.movie_id)}
       /\ (Responded /\ last'.op = "check_watchlist_status" /\ last'.code = 200) =>
             last'.body.in_watchlist
               = (Count(ProfileOf(profiles, last'.a.profile_id).watchlist, last'.a.movie_id) > 0)
      ]_vars
C16_Witness ==
    /\ ~MovieStored(MovieId(1))
    /\ Count(ProfileOf(profiles, ProfileId(1)).watchlist, MovieId(1)) = 1
    /\ Count(ProfileOf(profiles, ProfileId(1)).watch_history, MovieId(1)) = 1
    /\ Unfinished(ProfileId(1)) # {}
    /\ last.op = "get_continue_watching" /\ last.code = 200 /\ last.body = <<>>

Watchlist(profile_id) == ProfileOf(profiles, profile_id).watchlist

\* C17: with requests one at a time, an add of a stored movie to an owned
\* profile's watchlist that does not hold it appends the id, once, and answers
\* "Added to watchlist"; an add of a movie the watchlist holds answers success
\* with "Already in watchlist" and changes nothing.
C17_AddIdempotent ==
    [][/\ \A q \in Ran : (q.op = "add_to_watchlist" /\ q.pc = "push") =>
             /\ Count(Watchlist(q.a.profile_id), q.a.movie_id) = 0
             /\ Watchlist(q.a.profile_id)' = Append(Watchlist(q.a.profile_id), q.a.movie_id)
             /\ Count(Watchlist(q.a.profile_id)', q.a.movie_id) = 1
             /\ last'.code = 200 /\ last'.detail = "Added to watchlist"
       /\ (Responded /\ last'.op = "add_to_watchlist" /\ last'.code = 200) =>
             IF Count(Watchlist(last'.a.profile_id), last'.a.movie_id) = 0
             THEN last'.detail = "Added to watchlist"
             ELSE last'.detail = "Already in watchlist" /\ profiles' = profiles
       /\ (Responded /\ last'.op = "add_to_watchlist"
             /\ IsOwner(last'.who, last'.a.profile_id) /\ MovieStored(last'.a.movie_id)) =>
             Kind(last'.code) = "OK"
      ]_vars
C17_Witness ==
    /\ last.op = "add_to_watchlist" /\ last.code = 200
    /\ last.detail = "Already in watchlist" /\ last.a.movie_id = MovieId(1)
    /\ Watchlist(ProfileId(1)) = <<MovieId(1)>>

\* C19: a watchlist remove on an owned profile answers success; it leaves the
\* watchlist as it is when the id is not in it, and otherwise takes every
\* occurrence of the id out and keeps the other entries in their order; a
\* watchlist check answers whether the id is in the list, so false after a
\* remove.
C19_RemoveAll ==
    [][/\ (Responded /\ last'.op = "remove_from_watchlist"
             /\ IsOwner(last'.who, last'.a.profile_id)) => Kind(last'.code) = "OK"
       /\ \A q \in Ran : (q.op = "remove_from_watchlist" /\ q.pc = "pull") =>
             /\ Count(Watchlist(q.a.profile_id)', q.a.movie_id) = 0
             /\ Watchlist(q.a.profile_id)'
                  = SelectSeq(Watchlist(q.a.profile_id), LAMBDA x : x # q.a.movie_id)
             /\ Count(Watchlist(q.a.profile_id), q.a.movie_id) = 0 => profiles' = profiles
       /\ (Responded /\ last'.op = "check_watchlist_status" /\ last'.code = 200) =>
             last'.body.in_watchlist
               = (Count(Watchlist(last'.a.profile_id), last'.a.movie_id) > 0)
      ]_vars
C19_Witness ==
    /\ last.op = "remove_from_watchlist" /\ last.code = 200 /\ last.a.movie_id = MovieId(1)
    /\ Watchlist(ProfileId(1)) = <<MovieId(2)>>
    /\ ~MovieStored(MovieId(2))

\* C20: translations answers success for every code: for en, es and fr with
\* the mapping of that language, three different mappings, for any other code
\* with the en mapping; and every mapping returned has the keys of the en
\* mapping.
C20_Translations ==
    /\ DOMAIN Translations_es = DOMAIN Translations_en
    /\ DOMAIN Translations_fr = DOMAIN Translations_en
    /\ Translations_es # Translations_en /\ Translations_fr # Translations_en
    /\ Translations_es # Translations_fr
    /\ last.op = "get_translations" =>
          /\ Kind(last.code) = "OK"
          /\ last.a.lang = "en" => last.body = Translations_en
          /\ last.a.lang = "es" => last.body = Translations_es
          /\ last.a.lang = "fr" => last.body = Translations_fr
          /\ last.a.lang \notin {"en", "es", "fr"} => last.body = Translations_en
          /\ DOMAIN last.body = DOMAIN Translations_en
C20_Witness ==
    /\ last.op = "get_translations" /\ last.a.lang = "de"
    /\ last.body.home = "Home"

\* C21: movie list answers with stored movies that satisfy every filter sent:
\* the category, the release year, and the search text matching the title or
\* the description whatever the case; and with no filter sent and fewer
\* movies stored than the limit it answers with all of them.
C21_ListFilters ==
    [][(Responded /\ last'.op = "get_movies") =>
          LET a == last'.a
              body == last'.body
          IN  /\ Kind(last'.code) = "OK"
              /\ \A k \in 1..Len(body) :
                   /\ \E i \in 1..Len(movies) : movies[i] = body[k]
                   /\ a.category # NoVal => body[k].category = a.category
                   /\ a.year # None => body[k].release_year = a.year[1]
                   /\ a.search # None =>
                         \/ Contains(LowerText(body[k].title), LowerText(a.search[1]))
                         \/ Contains(LowerText(body[k].description), LowerText(a.search[1]))
              /\ (a.category = NoVal /\ a.year = None /\ a.search = None
                    /\ Len(movies) < a.limit) => body = movies
      ]_vars

\* The fields of a ProfileUpdate body that carry a value.
Supplied(data) == {f \in ProfileUpdateFields : data[f] # None}

\* C22: with requests one at a time, a step of an owner's profile update
\* gives each field sent with a value that value and leaves every other field
\* of the profile, its id, user_id, watch_history and created_at among them,
\* every other profile and every other collection as they are; a body with
\* no value changes nothing; and the call answers with the stored profile.
C22_UpdateFrame ==
    [][/\ \A q \in Ran : q.op = "update_profile" =>
             /\ users' = users /\ movies' = movies /\ view_progress' = view_progress
             /\ Len(profiles') = Len(profiles)
             /\ \A i \in 1..Len(profiles) :
                  IF profiles[i].id = q.a.profile_id
                  THEN /\ DOMAIN profiles'[i] = DOMAIN profiles[i]
                       /\ \A f \in DOMAIN profiles[i] :
                            IF f \in Supplied(q.a.data)
                            THEN profiles'[i][f] = q.a.data[f][1]
                            ELSE profiles'[i][f] = profiles[i][f]
                       /\ profiles'[i].id = profiles[i].id
                       /\ profiles'[i].user_id = profiles[i].user_id
                       /\ profiles'[i].watch_history = profiles[i].watch_history
                       /\ profiles'[i].created_at = profiles[i].created_at
                  ELSE profiles'[i] = profiles[i]
             /\ Supplied(q.a.data) = {} => profiles' = profiles
       /\ (Responded /\ last'.op = "update_profile"
             /\ IsOwner(last'.who, last'.a.profile_id)) =>
             /\ Kind(last'.code) = "OK"
             /\ last'.body = ProfileOf(profiles', last'.a.profile_id)
      ]_vars
C22_Witness ==
    /\ last.op = "update_profile" /\ last.code = 200
    /\ Supplied(last.a.data) = {"avatar", "watchlist"}
    /\ last.body.name = "Johnny" /\ last.body.avatar = "" /\ last.body.watchlist = <<"m0">>
    /\ last.body.watch_history = <<MovieId(1)>>

\* The ids of the stored Profile documents of a user.
ProfilesOf(user_id) ==
    {profiles[i].id : i \in {j \in 1..Len(profiles) : profiles[j].user_id = user_id}}
\* Every user's profile-id list holds the ids of its Profile documents, each
\* once.
ListsAgree ==
    \A i \in 1..Len(users) :
        /\ {users[i].profiles[k] : k \in 1..Len(users[i].profiles)} = ProfilesOf(users[i].id)
        /\ Len(users[i].profiles) = Cardinality(ProfilesOf(users[i].id))

\* C23: whenever every create profile and delete profile call made so far
\* has completed, each user's profile-id list holds exactly the ids of the
\* Profile documents of that user, each once, and profile list answers with
\* exactly those documents; the steps of a delete profile change only the
\* deleted document and the owner's list, and leave the ViewProgress records,
\* those of the deleted profile included.
C23_ProfileLists ==
    [][/\ Quiet => ListsAgree
       /\ Quiet' => ListsAgree'
       /\ (Responded /\ last'.op = "get_profiles" /\ last'.code = 200) =>
             /\ {last'.body[k] : k \in 1..Len(last'.body)}
                  = {profiles[i] : i \in {j \in 1..Len(profiles) :
                                             profiles[j].user_id = last'.who}}
             /\ Len(last'.body) = Cardinality(ProfilesOf(last'.who))
       /\ \A q \in Ran : q.op = "delete_profile" =>
             /\ view_progress' = view_progress /\ movies' = movies
             /\ profiles' = SelectSeq(profiles, LAMBDA p : p.id # q.a.profile_id)
             /\ Len(users') = Len(users)
             /\ \A i \in 1..Len(users) :
                  IF users[i].id = q.who
                  THEN users'[i] = [users[i] EXCEPT !.profiles = users'[i].profiles]
                  ELSE users'[i] = users[i]
      ]_vars
C23_Witness ==
    /\ Quiet /\ last.op = "delete_profile" /\ last.code = 200
    /\ last.a.profile_id = ProfileId(1) /\ ~ProfileStored(ProfileId(1))
    /\ users[2].profiles = <<>> /\ users[1].profiles = <<ProfileId(2)>>
    /\ \E i \in 1..Len(view_progress) : view_progress[i].profile_id = ProfileId(1)

AtMost(n, m) == IF n < m THEN n ELSE m

\* C24: with requests one at a time, continue watching answers with at most
\* 10 items in descending last_watched order, each a qualifying record of the
\* profile with the stored Movie of its movie_id; the records are those of
\* the (up to) 10 qualifying records with the greatest last_watched whose
\* Movie is stored, so that a deleted movie among these 10 leaves fewer than
\* 10 items even when an older qualifying record has its Movie stored.
C24_TenMostRecent ==
    [][(Responded /\ last'.op = "get_continue_watching" /\ last'.code = 200) =>
          LET body == last'.body
              Q == Unfinished(last'.a.profile_id)
              shown == {body[k].progress : k \in 1..Len(body)}
          IN  /\ Len(body) <= 10
              /\ Cardinality(shown) = Len(body)
              /\ \A k, l \in 1..Len(body) :
                   k < l => body[k].progress.last_watched >= body[l].progress.last_watched
              /\ \A k \in 1..Len(body) :
                   /\ body[k].progress \in Q
                   /\ body[k].movie.id = body[k].progress.movie_id
                   /\ \E i \in 1..Len(movies) : movies[i] = body[k].movie
              /\ \E T \in SUBSET Q :
                   /\ Cardinality(T) = AtMost(Cardinality(Q), 10)
                   /\ \A r \in T, o \in Q \ T : r.last_watched >= o.last_watched
                   /\ shown = {r \in T : MovieStored(r.movie_id)}
      ]_vars
C24_Witness ==
    /\ last.op = "get_continue_watching" /\ last.code = 200
    /\ Len(last.body) = 8
    /\ Cardinality(Unfinished(ProfileId(1))) = 11
    /\ \E r \in Unfinished(ProfileId(1)) :
         /\ MovieStored(r.movie_id)
         /\ \A k \in 1..Len(last.body) : last.body[k].progress # r

IsPrefix(s, t) == Len(s) <= Len(t) /\ SubSeq(t, 1, Len(s)) = s
History(coll, profile_id) == ProfileOf(coll, profile_id).watch_history

\* C25: with record progress calls one at a time, the step in which a call
\* answers success leaves the movie id once in the watch history of the
\* profile, appending it at the end when the history did not hold it and
\* leaving the history as it is when it did; and no step of any operation
\* (delete movie, record progress with completed = true and profile update
\* among them) removes or moves an entry of the watch history of a profile
\* that stays stored, a profile going away only in a step of delete profile.
C25_HistoryAppendOnly ==
    [][/\ \A i \in 1..Len(profiles), j \in 1..Len(profiles') :
             profiles[i].id = profiles'[j].id =>
                 IsPrefix(profiles[i].watch_history, profiles'[j].watch_history)
       /\ (\E i \in 1..Len(profiles) : \A j \in 1..Len(profiles') :
                profiles[i].id # profiles'[j].id) =>
             \E q \in Ran : q.op = "delete_profile"
       /\ (Responded /\ last'.op = "update_view_progress" /\ last'.code = 200
             /\ ProfileStored(last'.a.profile_id)) =>
             LET h == History(profiles, last'.a.profile_id)
                 m == last'.a.movie_id
             IN  /\ Count(History(profiles', last'.a.profile_id), m) = 1
                 /\ History(profiles', last'.a.profile_id)
                      = IF Count(h, m) = 0 THEN Append(h, m) ELSE h
      ]_vars
C25_Witness ==
    /\ last.op = "update_view_progress" /\ last.code = 200
    /\ last.a.movie_id = MovieId(2) /\ last.a.data.completed
    /\ ProfileStored(ProfileId(1))
    /\ History(profiles, ProfileId(1)) = <<MovieId(1), MovieId(2)>>
    /\ ~MovieStored(MovieId(1))
    /\ \E i \in 1..Len(view_progress) :
         view_progress[i].movie_id = MovieId(1) /\ view_progress[i].completed

ErrorKinds == {"Unauthorized", "Forbidden", "NotFound", "Conflict"}
\* The positions a suspended request answers an error from: the movie lookup
\* of record progress and of watchlist add.
ErrorPoints == {<<"update_view_progress", "movie">>, <<"add_to_watchlist", "movie">>}
\* The requests this step has left suspended at a position they were not at.
Moved == {q \in BagToSet(inflight') : CopiesIn(q, inflight') > CopiesIn(q, inflight)}

\* C26: the step in which a request answers Unauthorized, Forbidden, NotFound
\* or Conflict changes no collection, and the request has changed none
\* before: it answers in its first step, or from a movie lookup that its
\* first step, which changes nothing, has led to.  Record progress and
\* watchlist add with a movie id that no Movie has answer NotFound, with no
\* ViewProgress record created and no watch history or watchlist touched.
C26_ErrorsChangeNothing ==
    [][/\ (Responded /\ Kind(last'.code) \in ErrorKinds) =>
             /\ db' = db
             /\ AnsweredAtOnce \/ \E q \in Ran : <<q.op, q.pc>> \in ErrorPoints
       /\ \A q \in Moved : <<q.op, q.pc>> \in ErrorPoints => q \in Begun /\ db' = db
       /\ (Responded /\ last'.op \in {"update_view_progress", "add_to_watchlist"}
             /\ last'.who # NoVal /\ last'.a.movie_id = "m0") =>
             /\ Kind(last'.code) = "NotFound"
             /\ view_progress' = view_progress /\ profiles' = profiles
      ]_vars
C26_Witness ==
    /\ last.op = "update_view_progress" /\ last.code = 404
    /\ last.detail = "Movie not found" /\ last.a.movie_id = MovieId(1)
    /\ Len(view_progress) = 1 /\ view_progress[1].movie_id = MovieId(1)
    /\ Len(movies) = 1 /\ movies[1].slug = "sintel"

\* C27: with requests one at a time, no step leaves a movie id twice in the
\* watchlist of a profile, and every id a step brings into a watchlist is the
\* id of a stored Movie, whatever watchlist adds, watchlist removes and
\* profile updates the owner makes.
C27_WatchlistSound ==
    [][\A j \in 1..Len(profiles') :
          LET new == profiles'[j].watchlist
              old == IF ProfileStored(profiles'[j].id)
                     THEN Watchlist(profiles'[j].id) ELSE <<>>
          IN  /\ \A k, l \in 1..Len(new) : k # l => new[k] # new[l]
              /\ \A k \in 1..Len(new) : Count(old, new[k]) = 0 => MovieStored(new[k])
      ]_vars

\* C28: a refresh token that register or login returned, presented as the
\* bearer credential of a protected call, is answered Unauthorized.
C28_OnlyAccessTokens ==
    (last.op = "get_me" /\ ~IsNil(held) /\ last.cred = held.refresh_token) =>
        Kind(last.code) = "Unauthorized"

\* C29: under any interleaving of record progress with delete profile and
\* delete movie, the step of record progress that inserts or updates a
\* ViewProgress record runs while the Profile and the Movie of the record are
\* stored, and so does the step that answers success.
C29_WritesWhileStored ==
    [][\A q \in Ran : q.op = "update_view_progress" =>
          /\ view_progress' # view_progress =>
                ProfileStored(q.a.profile_id) /\ MovieStored(q.a.movie_id)
          /\ (Responded /\ last'.code = 200) =>
                ProfileStored(q.a.profile_id) /\ MovieStored(q.a.movie_id)
      ]_vars

\* C30: under any interleaving with a delete of the same document, an update
\* profile call of the owner and an update movie call of an admin answer
\* with the updated document or with NotFound, never with a server fault,
\* and no step of theirs adds a document.
C30_UpdateOrNotFound ==
    [][/\ (Responded /\ last'.op \in {"update_profile", "update_movie"}) =>
             Kind(last'.code) # "ServerFault"
       /\ (Responded /\ ~AnsweredAtOnce /\ last'.op \in {"update_profile", "update_movie"}) =>
             \/ Kind(last'.code) = "NotFound"
             \/ /\ Kind(last'.code) = "OK"
                /\ \/ last'.op = "update_profile" /\ last'.body.id = last'.a.profile_id
                   \/ last'.op = "update_movie" /\ last'.body.id = last'.a.movie_id
       /\ \A q \in Ran : q.op \in {"update_profile", "update_movie"} =>
             Len(profiles') <= Len(profiles) /\ Len(movies') <= Len(movies)
      ]_vars

====
